---- MODULE Spec2Model ----
(***************************************************************************)
(* A model of the task evaluation subsystem of agent-studio:               *)
(*   - FilesystemEvaluator.execute and its checks (filesystem_evaluator.py)*)
(*   - EvaluatorComb, evaluator_router and eval_tasks (evaluator_helper.py)*)
(*   - GoogleCalendarService.event_match_left (gcalendar.py)               *)
(*   - export_trajectory / load_result (json_utils.py)                     *)
(*   - AgentInterface and its worker threads (agent_interface.py)          *)
(*   - list_calendars, list_events, search_events_by_time_range paging     *)
(*     (gcalendar.py)                                                      *)
(*   - the screen refresh of AgentInterface.render and Recorder.render     *)
(*     (agent_interface.py, recorder.py)                                   *)
(*   - FrameBuffer (agent_interface.py)                                    *)
(*   - OpenAIProvider.generate_response (openai.py)                        *)
(*   - extract_email and message_match (gmail_evaluator.py)                *)
(*   - read_unfinished_tasks and load_results (json_utils.py)              *)
(* Scores are the floats 0.0 and 1.0, written 0 and 1.                     *)
(***************************************************************************)
EXTENDS Integers, Sequences, FiniteSets, TLC

VARIABLES
    fs,         \* the filesystem: path -> [kind, content, mode]
    xpc,        \* FilesystemEvaluator.execute: "idle" | "loop" | "entries" | "returned"
    xn,         \* execute: len(steps) of the running call
    xidx,       \* execute: number of steps whose body has been entered
    xcur,       \* execute: the assertion action whose params are being iterated
    xleft,      \* execute: entries of the current params dict not yet visited
    xseen,      \* execute: paths (dict keys) of the current params already visited
    xscore,     \* execute: the local variable score
    xexc,       \* execute: the exception caught by the except clause, or "none"
    xresult,    \* execute: the returned value, or -1 before the return
    xdone,      \* history: number of steps that ran to completion
    xverdicts,  \* history: <<entries judged passing, entries judged failing>>
    xraisedAt,  \* history: the position in the list of the step that raised, or 0
    epc,          \* eval_tasks: "idle" | "tasks" | "comb" | "scored" | "returned" | "raised"
    ntasks,       \* eval_tasks: len(task_configs["tasks"])
    tidx,         \* eval_tasks: tasks whose loop body has finished
    gained_score, \* eval_tasks: the local variable gained_score
    total_score,  \* eval_tasks: the local variable total_score
    task,         \* eval_tasks: the task_config of the current iteration
    evaluators,   \* EvaluatorComb.evaluators of the current comb
    cidx,         \* EvaluatorComb.__call__: evaluators already invoked
    cscore,       \* EvaluatorComb.__call__: the local variable score
    task_score,   \* eval_tasks: the value comb() returned, or -1
    eresult,      \* eval_tasks: the returned value as the fraction [num, den]
    eexc,         \* eval_tasks: the exception that left it, or "none"
    score_weight, \* history: task_configs["score_weight"] as read at the return
    invoked,      \* history: positions of the evaluators invoked by this comb call
    cscores,      \* history: the score each invoked evaluator returned
    tfailed,      \* history: criteria judged failing during this comb call
    traised,      \* history: evaluators of this comb call whose run raised
    taskScores,   \* history: the task_score of every finished task
    weights,      \* history: the declared score (weight) of every finished task
    localZone,    \* the time zone of the machine, which astimezone() converts to
    mpc,          \* event_match_left: "idle" | "loop" | "returned"
    pred,         \* event_match_left: the queried event
    mn,           \* event_match_left: len(ref)
    mref,         \* event_match_left: the items of ref visited so far, in order
    mresult,      \* event_match_left: "True" | "False" | "TypeError", or "none"
    mallmatch,    \* history: every visited item of ref agrees with pred
    jexists,      \* the result directory holds a result.jsonl
    result_jsonl, \* the characters of result.jsonl
    jpc,          \* "idle" | "exported" | "loaded"
    exported,     \* the record export_trajectory was last called with
    loaded,       \* what load_result returned or raised
    button,       \* AgentInterface: isEnabled() of the buttons and of the task list
    selected_task,  \* AgentInterface.selected_task, or "None"
    current_thread, \* AgentInterface.current_thread: a thread of threads
    current_step_num, \* AgentInterface.current_step_num
    threads,      \* the QThread objects: kind, position in run(), fields
    events,       \* the GUI thread's queue of signals emitted by worker threads
    dialogs,      \* the QInputDialogs whose exec() is running, innermost last
    gpc,          \* the GUI thread: "idle", or its position inside a slot
    aborted,      \* the process was ended by qFatal
    run_finished, \* history: finish_run_task ran since Start was last clicked
    saved,        \* history: save_trajectory exported since Evaluate was last clicked
    lost_wake,    \* history: a wakeAll found its thread not in wait()
    ppc,          \* a paging call of GoogleCalendarService: "idle" | "loop" | "returned"
    pfn,          \* the method that is running, or "none"
    chain,        \* the pages the server holds for the query
    page_token,   \* the local variable page_token
    collected,    \* the local list the items are appended to
    requested,    \* history: the pageToken argument of each request, in order
    opc,          \* execute as one call: "idle" | "returned" | "compared"
    oin,          \* the arguments of the call, and the tree it was made on
    oout,         \* what the call gave
    window,            \* the window that renders: "AgentInterface" | "Recorder"
    timer_active,      \* refresh_timer.isActive()
    refreshing_screen, \* self.refreshing_screen
    ready,             \* Recorder: render coroutines scheduled and not yet started
    grabbing,          \* update_screen calls that have begun and not returned
    screen,            \* the frame the remote screen shows
    now_screenshot,    \* Recorder: self.now_screenshot
    shown,             \* the frame vnc_frame shows
    queue,        \* FrameBuffer.queue: the (frame_id, frame) pairs, oldest first
    lock,         \* FrameBuffer.lock: the thread that holds it, or 0
    calls,        \* the FrameBuffer call each thread is in, and where
    added,        \* history: every pair appended to the queue, in the order appended
    cleared,      \* history: Len(added) when clear last emptied the queue
    lpc,          \* generate_response: "idle" | "try" | "sleep" | "returned" | "raised"
    tries,        \* backoff: the local variable tries
    attempts,     \* history: what each chat.completions.create call of this request did
    lresult,      \* generate_response: what it returned or raised
    wpc,          \* message_match: "idle" | "read" | "keys" | "returned"
    wkey,         \* message_match: the position in MailKeys of the key being compared
    wmsg,         \* message_match: msg_to_match[key]
    wref,         \* message_match: ref_msg[key], None, or Undeclared
    wresult,      \* message_match: the local variable result
    wallmatch,    \* history: every field that ref declared so far matches
    wdeclared,    \* history: the fields compared so far that ref declares
    upc,          \* read_unfinished_tasks: "idle" | "results" | "returned" | "raised"
    uconfigs,     \* read_unfinished_tasks: task_configs, each as its task_id
    udirs,        \* the entries of results_dir in iterdir order
    uidx,         \* load_results: entries of results_dir visited
    uresults,     \* load_results: the local list results
    uskipped,     \* history: entries whose load_result raised
    unfinished    \* read_unfinished_tasks: the returned list

xVars == <<xpc, xn, xidx, xcur, xleft, xseen, xscore, xexc, xresult,
           xdone, xverdicts, xraisedAt>>

eVars == <<epc, ntasks, tidx, gained_score, total_score, task, evaluators, cidx,
           cscore, task_score, eresult, eexc, score_weight, invoked, cscores,
           tfailed, traised, taskScores, weights>>

mVars == <<localZone, mpc, pred, mn, mref, mresult, mallmatch>>

jVars == <<jexists, result_jsonl, jpc, exported, loaded>>

gVars == <<button, selected_task, current_thread,
           current_step_num, threads, events, dialogs, gpc, aborted,
           run_finished, saved, lost_wake>>

pVars == <<ppc, pfn, chain, page_token, collected, requested>>

oVars == <<opc, oin, oout>>

rVars == <<window, timer_active, refreshing_screen, ready, grabbing, screen,
           now_screenshot, shown>>

bVars == <<queue, lock, calls, added, cleared>>

\* The parts that no specification above the frame buffer touches.
lVars == <<lpc, tries, attempts, lresult>>

wVars == <<wpc, wkey, wmsg, wref, wresult, wallmatch, wdeclared>>

uVars == <<upc, uconfigs, udirs, uidx, uresults, uskipped, unfinished>>

restVars == <<bVars, lVars, wVars, uVars>>

vars == <<fs, xVars, eVars, mVars, jVars, gVars, pVars, oVars, rVars, restVars>>

\* What the actions of each part leave alone.
NotExecute == <<eVars, mVars, jVars, gVars, pVars, oVars, rVars, restVars>>
NotEval == <<xVars, mVars, jVars, gVars, pVars, oVars, rVars, restVars>>
NotMatch == <<fs, xVars, eVars, jVars, gVars, pVars, oVars, rVars, restVars>>
NotJson == <<fs, xVars, eVars, mVars, gVars, pVars, oVars, rVars, restVars>>
NotGui == <<fs, xVars, eVars, mVars, jVars, pVars, oVars, rVars, restVars>>
NotPages == <<fs, xVars, eVars, mVars, jVars, gVars, oVars, rVars, restVars>>
NotCalls == <<xVars, eVars, mVars, jVars, gVars, pVars, rVars, restVars>>
NotRender == <<fs, xVars, eVars, mVars, jVars, gVars, pVars, oVars, restVars>>
Others == <<fs, xVars, eVars, mVars, jVars, gVars, pVars, oVars, rVars>>
NotBuffer == <<Others, lVars, wVars, uVars>>
NotLlm == <<Others, bVars, wVars, uVars>>
NotMail == <<Others, bVars, lVars, uVars>>
NotUnfinished == <<Others, bVars, lVars, wVars>>

-----------------------------------------------------------------------------
(* Bounds of the model *)

MaxSteps == 3      \* longest step list handed to execute
MaxEntries == 2    \* most entries in the params dict of one assertion step
MaxTasks == 2      \* most tasks in the config handed to eval_tasks
MaxEvals == 2      \* most evaluation steps declared by one task
MaxRefKeys == 3    \* most keys of the reference event handed to event_match_left
MaxLines == 2      \* most lines result.jsonl grows to
MaxThreads == 2    \* most QThread objects alive at a time
MaxEvents == 1     \* most emitted signals waiting in the GUI thread's queue
max_step == 2      \* config.max_step, scaled down
MaxPages == 3      \* most pages of a listing
MaxItems == 2      \* most items on a page
MaxRequests == 4   \* requests of one paging call that are followed
MaxChecks == 2     \* most checks in a list that is judged on two trees
MaxRenders == 3    \* most render coroutines alive at a time
MaxFrame == 3      \* the remote screen shows one of the frames 1..MaxFrame

-----------------------------------------------------------------------------
(* The filesystem the evaluator acts on *)

NoKey == "<no key>"          \* a key that the params dict does not hold
Outside == "<outside>"       \* a path outside the modelled directory tree

Paths == {"tmp", "tmp/test.txt", "out"}
Contents == {"", "Hello World!"}
Modes == {420, 493}          \* 0o644, 0o755

Parent(p) == IF p = "tmp/test.txt" THEN "tmp" ELSE "."
Basename(p) == IF p = "tmp/test.txt" THEN "test.txt" ELSE p
Join(d, b) == IF d = "tmp" /\ b = "test.txt" THEN "tmp/test.txt" ELSE Outside
Children(p) == {q \in Paths : Parent(q) = p}

Absent == [kind |-> "absent", content |-> "", mode |-> 0]
File(c, m) == [kind |-> "file", content |-> c, mode |-> m]
Dir(m) == [kind |-> "dir", content |-> "", mode |-> m]

FileStates == {Absent} \cup {File(c, m) : c \in Contents, m \in Modes}
                  \cup {Dir(m) : m \in Modes}

\* A directory tree: an entry exists only inside an existing directory.
WellFormed(f) == \A p \in Paths :
    f[p].kind # "absent" => (Parent(p) = "." \/ f[Parent(p)].kind = "dir")

ParentIsDir(f, p) == Parent(p) = "." \/ f[Parent(p)].kind = "dir"
IsEmptyDir(f, p) == f[p].kind = "dir" /\ \A q \in Children(p) : f[q].kind = "absent"

\* Path(path).exists(), os.path.exists.  A test that takes every path for
\* present:
existsAlways(f, path) == TRUE
exists(f, path) == f[path].kind # "absent"
is_file(f, path) == f[path].kind = "file"
is_dir(f, path) == f[path].kind = "dir"

\* int(s, 8): the value of an octal string; -1 stands for ValueError
OctalValue(s) == CASE s = "644" -> 420
                   [] s = "755" -> 493
                   [] s = "600" -> 384
                   [] OTHER -> -1

\* stat.filemode(st_mode)
FileMode(st) ==
    (IF st.kind = "dir" THEN "d" ELSE "-") \o
    (CASE st.mode = 420 -> "rw-r--r--"
       [] st.mode = 493 -> "rwxr-xr-x"
       [] st.mode = 384 -> "rw-------"
       [] OTHER -> "---------")

\* st_size
StSize(st) == CASE st.kind = "dir" -> 4096
                [] st.content = "Hello World!" -> 12
                [] OTHER -> 0

Ok(f) == [fs |-> f, exc |-> "none"]
Raise(f, e) == [fs |-> f, exc |-> e]

\* The tree after the entry at old (with what it contains) has become new.
MovePath(f, old, new) ==
    [q \in Paths |->
        IF q = new THEN f[old]
        ELSE IF q = old THEN Absent
        ELSE IF Parent(q) = new
             THEN (IF Join(old, Basename(q)) \in Paths
                   THEN f[Join(old, Basename(q))] ELSE Absent)
        ELSE IF Parent(q) = old THEN Absent
        ELSE f[q]]

\* The place cp and mv write to: inside dest when dest is a directory.
Target(f, src, dest) == IF f[dest].kind = "dir" THEN Join(dest, Basename(src)) ELSE dest

-----------------------------------------------------------------------------
(* The mutating steps of FilesystemEvaluator.execute.  A step is the dict  *)
(* {action: params}, written [action, path, dest, text, entries]: path is  *)
(* params["path"] (old_name, src), dest is new_name or dest, text is       *)
(* content or mode, entries the items of an assertion step's params.       *)
(* fail says that the operating system refuses the call (permission        *)
(* denied).  Each operator gives the tree the call leaves and the          *)
(* exception it raises.                                                    *)

\* case "create_file": open(file_name, "w"), with or without content
create_file(f, params, fail) ==
    IF params.path = NoKey THEN Raise(f, "KeyError")
    ELSE IF fail THEN Raise(f, "PermissionError")
    ELSE IF ~ParentIsDir(f, params.path) THEN Raise(f, "FileNotFoundError")
    ELSE IF is_dir(f, params.path) THEN Raise(f, "IsADirectoryError")
    ELSE Ok([f EXCEPT ![params.path] =
                File(IF params.text = NoKey THEN "" ELSE params.text,
                     IF is_file(f, params.path) THEN f[params.path].mode ELSE 420)])

\* case "mkdir": Path(path).mkdir(parents=True, exist_ok=True)
mkdir(f, params, fail) ==
    IF params.path = NoKey THEN Raise(f, "KeyError")
    ELSE IF is_dir(f, params.path) THEN Ok(f)
    ELSE IF fail THEN Raise(f, "PermissionError")
    ELSE IF is_file(f, params.path) THEN Raise(f, "FileExistsError")
    ELSE IF ParentIsDir(f, params.path)
         THEN Ok([f EXCEPT ![params.path] = Dir(493)])
    ELSE IF is_file(f, Parent(params.path)) THEN Raise(f, "NotADirectoryError")
    ELSE Ok([f EXCEPT ![Parent(params.path)] = Dir(493), ![params.path] = Dir(493)])

\* case "rm": os.remove when the path exists and is a file
rm(f, params, fail) ==
    IF params.path = NoKey THEN Raise(f, "KeyError")
    ELSE IF ~(exists(f, params.path) /\ is_file(f, params.path)) THEN Ok(f)
    ELSE IF fail THEN Raise(f, "PermissionError")
    ELSE Ok([f EXCEPT ![params.path] = Absent])

\* case "rmdir": shutil.rmtree when the path exists and is a directory
rmdir(f, params, fail) ==
    IF params.path = NoKey THEN Raise(f, "KeyError")
    ELSE IF ~(exists(f, params.path) /\ is_dir(f, params.path)) THEN Ok(f)
    ELSE IF fail THEN Raise(f, "PermissionError")
    ELSE Ok([q \in Paths |->
                IF q = params.path \/ Parent(q) = params.path THEN Absent ELSE f[q]])

\* case "rename": os.rename(old_name, new_name)
rename(f, params, fail) ==
    LET old == params.path
        new == params.dest
    IN  IF old = NoKey \/ new = NoKey THEN Raise(f, "KeyError")
        ELSE IF fail THEN Raise(f, "PermissionError")
        ELSE IF ~exists(f, old) THEN Raise(f, "FileNotFoundError")
        ELSE IF old = new THEN Ok(f)
        ELSE IF Parent(new) = old
             THEN Raise(f, IF is_dir(f, old) THEN "OSError" ELSE "NotADirectoryError")
        ELSE IF ~ParentIsDir(f, new) THEN Raise(f, "FileNotFoundError")
        ELSE IF is_file(f, old) /\ is_dir(f, new) THEN Raise(f, "IsADirectoryError")
        ELSE IF is_dir(f, old) /\ is_file(f, new) THEN Raise(f, "NotADirectoryError")
        ELSE IF is_dir(f, old) /\ is_dir(f, new) /\ ~IsEmptyDir(f, new)
             THEN Raise(f, "OSError")
        ELSE Ok(MovePath(f, old, new))

\* case "copy": os.system(f"cp {src} {dest}"); the exit status is discarded
copy(f, params, fail) ==
    LET src == params.path
        dest == params.dest
        to == Target(f, src, dest)
    IN  IF src = NoKey \/ dest = NoKey THEN Raise(f, "KeyError")
        ELSE IF fail \/ ~is_file(f, src) \/ to = src \/ to \notin Paths THEN Ok(f)
        ELSE IF ~ParentIsDir(f, to) \/ is_dir(f, to) THEN Ok(f)
        ELSE Ok([f EXCEPT ![to] =
                    File(f[src].content,
                         IF is_file(f, to) THEN f[to].mode ELSE f[src].mode)])

\* case "move": os.system(f"mv {src} {dest}"); the exit status is discarded
move(f, params, fail) ==
    LET src == params.path
        dest == params.dest
        to == Target(f, src, dest)
    IN  IF src = NoKey \/ dest = NoKey THEN Raise(f, "KeyError")
        ELSE IF fail \/ ~exists(f, src) \/ to = src \/ to \notin Paths THEN Ok(f)
        ELSE IF ~ParentIsDir(f, to) \/ Parent(to) = src THEN Ok(f)
        ELSE IF is_file(f, src) /\ is_dir(f, to) THEN Ok(f)
        ELSE IF is_dir(f, src) /\ is_file(f, to) THEN Ok(f)
        ELSE IF is_dir(f, src) /\ is_dir(f, to) /\ ~IsEmptyDir(f, to) THEN Ok(f)
        ELSE Ok(MovePath(f, src, to))

\* case "chmod": os.chmod(file_name, int(params["mode"], 8))
chmod(f, params, fail) ==
    IF params.path = NoKey \/ params.text = NoKey THEN Raise(f, "KeyError")
    ELSE IF OctalValue(params.text) = -1 THEN Raise(f, "ValueError")
    ELSE IF ~exists(f, params.path) THEN Raise(f, "FileNotFoundError")
    ELSE IF fail THEN Raise(f, "PermissionError")
    ELSE Ok([f EXCEPT ![params.path].mode = OctalValue(params.text)])

MutatingActions == {"create_file", "mkdir", "rm", "rmdir", "rename", "copy",
                    "move", "chmod"}
AssertionActions == {"exists", "type_check", "permissions_check", "content_check",
                     "metadata_check"}

\* The mutating cases of the match statement.
ApplyMutation(f, step, fail) ==
    CASE step.action = "create_file" -> create_file(f, step, fail)
      [] step.action = "mkdir" -> mkdir(f, step, fail)
      [] step.action = "rm" -> rm(f, step, fail)
      [] step.action = "rmdir" -> rmdir(f, step, fail)
      [] step.action = "rename" -> rename(f, step, fail)
      [] step.action = "copy" -> copy(f, step, fail)
      [] step.action = "move" -> move(f, step, fail)
      [] step.action = "chmod" -> chmod(f, step, fail)


\* A rename, cp or mv whose result lies inside the modelled tree.
Representable(f, step) ==
    (step.action \in {"rename", "copy", "move"} /\ step.path # NoKey /\ step.dest # NoKey)
    => LET to == IF step.action = "rename" THEN step.dest
                 ELSE Target(f, step.path, step.dest)
       IN  /\ to \in Paths
           /\ \A q \in Children(step.path) :
                  exists(f, q) => Join(to, Basename(q)) \in Paths

-----------------------------------------------------------------------------
(* The assertion steps.  An entry is one item (path, value) of the params  *)
(* dict, written [path, text, flag, size]: flag is the value of an exists  *)
(* entry, text the type, permissions or content expected, and a metadata   *)
(* entry is {"size": size}, or {"last_modified": text} when text is given. *)

BadDate == "not-a-date"      \* a last_modified that datetime.fromisoformat rejects

\* FilesystemEvaluator.file_content_match: IOError (no file, a directory) is False
file_content_match(f, path, expected_content) ==
    IF ~is_file(f, path) THEN FALSE
    ELSE f[path].content = expected_content

\* FilesystemEvaluator.permission_match: octal when int(.., 8) parses, else
\* the stat.filemode string; IOError (no such path) is False
permission_match(f, path, expected_permissions) ==
    IF ~exists(f, path) THEN FALSE
    ELSE IF OctalValue(expected_permissions) # -1
         THEN f[path].mode = OctalValue(expected_permissions)
    ELSE FileMode(f[path]) = expected_permissions

\* FilesystemEvaluator.file_metadata_match: [ok, exc]; a malformed time raises
\* ValueError, which the except IOError clause does not catch
file_metadata_match(f, path, metadata) ==
    IF ~exists(f, path) THEN [ok |-> FALSE, exc |-> "none"]
    ELSE IF metadata.text # NoKey THEN [ok |-> FALSE, exc |-> "ValueError"]
    ELSE [ok |-> StSize(f[path]) = metadata.size, exc |-> "none"]

\* float(b)
Float(b) == IF b THEN 1 ELSE 0

\* The factor one entry multiplies score by, and the exception it raises.
ApplyEntry(f, action, e) ==
    CASE action = "exists" ->
            [mult |-> Float(exists(f, e.path) = e.flag), exc |-> "none"]
      [] action = "type_check" ->
            [mult |-> IF e.text = "file" THEN Float(is_file(f, e.path))
                      ELSE IF e.text = "folder" THEN Float(is_dir(f, e.path))
                      ELSE 1,
             exc |-> "none"]
      [] action = "permissions_check" ->
            [mult |-> Float(permission_match(f, e.path, e.text)), exc |-> "none"]
      [] action = "content_check" ->
            [mult |-> Float(file_content_match(f, e.path, e.text)), exc |-> "none"]
      [] action = "metadata_check" ->
            [mult |-> Float(file_metadata_match(f, e.path, e).ok),
             exc |-> file_metadata_match(f, e.path, e).exc]

\* score *= float(...)
AccumulateLast(score, mult) == mult
Accumulate(score, mult) == score * mult

\* except Exception: score = 0.0
ExceptClauseKeeps(score, exc) == score
ExceptClause(score, exc) == IF exc # "none" THEN 0 ELSE score

\* What the criterion of an entry asks of the tree it is judged against.
Passes(f, action, e) ==
    LET st == f[e.path]
    IN  CASE action = "exists" -> (st.kind \in {"file", "dir"}) <=> e.flag
          [] action = "type_check" -> /\ e.text = "file" => st.kind = "file"
                                      /\ e.text = "folder" => st.kind = "dir"
          [] action = "permissions_check" ->
                 /\ st.kind # "absent"
                 /\ \/ e.text \in {"644", "755", "600"} /\ OctalValue(e.text) = st.mode
                    \/ e.text = FileMode(st)
          [] action = "content_check" -> st.kind = "file" /\ st.content = e.text
          [] action = "metadata_check" -> st.kind # "absent" /\ StSize(st) = e.size


-----------------------------------------------------------------------------
(* The steps and entries execute is run on *)

Step(a, p, d, t, es) == [action |-> a, path |-> p, dest |-> d, text |-> t, entries |-> es]
Entry(p, t, b, n) == [path |-> p, text |-> t, flag |-> b, size |-> n]

MutatingSteps ==
    {Step("create_file", p, NoKey, t, <<>>) : p \in Paths \cup {NoKey},
                                              t \in Contents \cup {NoKey}}
    \cup {Step(a, p, NoKey, NoKey, <<>>) : a \in {"mkdir", "rm", "rmdir"},
                                          p \in Paths \cup {NoKey}}
    \cup {Step(a, p, d, NoKey, <<>>) : a \in {"rename", "copy", "move"},
                                      p \in Paths, d \in Paths \cup {NoKey}}
    \cup {Step("chmod", p, NoKey, t, <<>>) : p \in Paths, t \in {"644", "755", "u+x"}}

EntryInputs(action) ==
    CASE action = "exists" -> {Entry(p, NoKey, b, 0) : p \in Paths, b \in BOOLEAN}
      [] action = "type_check" ->
            {Entry(p, t, FALSE, 0) : p \in Paths, t \in {"file", "folder", "symlink"}}
      [] action = "permissions_check" ->
            {Entry(p, t, FALSE, 0) : p \in Paths,
                                     t \in {"644", "755", "-rw-r--r--", "drwxr-xr-x"}}
      [] action = "content_check" -> {Entry(p, t, FALSE, 0) : p \in Paths, t \in Contents}
      [] action = "metadata_check" ->
            {Entry(p, NoKey, FALSE, n) : p \in Paths, n \in {0, 12, 4096}}
            \cup {Entry(p, BadDate, FALSE, 0) : p \in Paths}

Trees == {f \in [Paths -> FileStates] : WellFormed(f)}

-----------------------------------------------------------------------------
(* FilesystemEvaluator.execute, one iteration of its loops at a time *)

\* The history of one judged entry.
Judged(v, passed) == IF passed THEN <<v[1] + 1, v[2]>> ELSE <<v[1], v[2] + 1>>

InitExecute ==
    /\ xpc = "idle" /\ xn = 0 /\ xidx = 0 /\ xcur = "none" /\ xleft = 0 /\ xseen = {}
    /\ xscore = 1 /\ xexc = "none" /\ xresult = -1 /\ xdone = 0
    /\ xverdicts = <<0, 0>> /\ xraisedAt = 0

\* execute(steps): score = 1.0, and the try block is entered
execute_call ==
    /\ UNCHANGED NotExecute
    /\ xpc = "idle"
    /\ \E n \in 0..MaxSteps : xn' = n
    /\ xpc' = "loop" /\ xidx' = 0 /\ xcur' = "none" /\ xleft' = 0 /\ xseen' = {}
    /\ xscore' = 1 /\ xexc' = "none" /\ xresult' = -1 /\ xdone' = 0
    /\ xverdicts' = <<0, 0>> /\ xraisedAt' = 0
    /\ UNCHANGED fs

\* The step raised: the except clause sets the score and execute returns it.
execute_raise(f, exc) ==
    /\ fs' = f /\ xraisedAt' = xidx'
    /\ xexc' = exc
    /\ xscore' = ExceptClause(xscore, exc)
    /\ xresult' = ExceptClause(xscore, exc)
    /\ xpc' = "returned"
    /\ xcur' = "none" /\ xleft' = 0 /\ xseen' = {}
    /\ UNCHANGED <<xn, xdone, xverdicts>>

\* One mutating step of the list.
execute_mutate ==
    /\ UNCHANGED NotExecute
    /\ xpc = "loop" /\ xidx < xn
    /\ \E step \in MutatingSteps, fail \in BOOLEAN :
          /\ Representable(fs, step)
          /\ LET r == ApplyMutation(fs, step, fail)
             IN  IF r.exc = "none"
                 THEN /\ fs' = r.fs
                      /\ xidx' = xidx + 1 /\ xdone' = xdone + 1
                      /\ UNCHANGED <<xpc, xn, xcur, xleft, xseen, xscore, xexc,
                                     xresult, xverdicts, xraisedAt>>
                 ELSE /\ xidx' = xidx + 1
                      /\ execute_raise(r.fs, r.exc)

\* case _: an action name outside the vocabulary
execute_unknown ==
    /\ UNCHANGED NotExecute
    /\ xpc = "loop" /\ xidx < xn
    /\ xidx' = xidx + 1
    /\ execute_raise(fs, "Exception")

\* An assertion step is entered: its params hold k entries.
execute_assert ==
    /\ UNCHANGED NotExecute
    /\ xpc = "loop" /\ xidx < xn
    /\ \E action \in AssertionActions, k \in 0..MaxEntries :
          /\ xidx' = xidx + 1
          /\ IF k = 0
             THEN /\ xdone' = xdone + 1
                  /\ UNCHANGED <<xpc, xcur, xleft>>
             ELSE /\ xpc' = "entries" /\ xcur' = action /\ xleft' = k
                  /\ UNCHANGED xdone
    /\ UNCHANGED <<fs, xn, xseen, xscore, xexc, xresult, xverdicts, xraisedAt>>

\* for path, value in params.items(): score *= float(...)
execute_entry ==
    /\ UNCHANGED NotExecute
    /\ xpc = "entries" /\ xleft > 0
    /\ \E e \in EntryInputs(xcur) :
          /\ e.path \notin xseen
          /\ LET r == ApplyEntry(fs, xcur, e)
             IN  IF r.exc = "none"
                 THEN /\ xscore' = Accumulate(xscore, r.mult)
                      /\ xverdicts' = Judged(xverdicts, Passes(fs, xcur, e))
                      /\ xleft' = xleft - 1
                      /\ IF xleft = 1
                         THEN xpc' = "loop" /\ xcur' = "none" /\ xseen' = {}
                                /\ xdone' = xdone + 1
                         ELSE xseen' = xseen \cup {e.path}
                                /\ UNCHANGED <<xpc, xcur, xdone>>
                      /\ UNCHANGED <<fs, xn, xidx, xexc, xresult, xraisedAt>>
                 ELSE /\ UNCHANGED xidx
                      /\ execute_raise(fs, r.exc)

\* The list is exhausted: return score
execute_return ==
    /\ UNCHANGED NotExecute
    /\ xpc = "loop" /\ xidx = xn
    /\ xpc' = "returned" /\ xresult' = xscore
    /\ UNCHANGED <<fs, xn, xidx, xcur, xleft, xseen, xscore, xexc, xdone,
                   xverdicts, xraisedAt>>

\* The caller is back; execute can be called again on the tree it left.
execute_again ==
    /\ UNCHANGED NotExecute
    /\ xpc = "returned"
    /\ xpc' = "idle" /\ xn' = 0 /\ xidx' = 0 /\ xscore' = 1 /\ xexc' = "none"
    /\ xresult' = -1 /\ xdone' = 0 /\ xverdicts' = <<0, 0>> /\ xraisedAt' = 0
    /\ UNCHANGED <<fs, xcur, xleft, xseen>>


-----------------------------------------------------------------------------
(* execute as one call: the same loop, run over a whole step list.  fail   *)
(* says whether the operating system refuses the calls of this run.        *)

RECURSIVE ExecuteEntries(_, _, _, _)
\* for path, value in params.items(), from entry i on
ExecuteEntries(st, action, entries, i) ==
    IF i > Len(entries) THEN st
    ELSE LET r == ApplyEntry(st.fs, action, entries[i])
         IN  IF r.exc # "none"
             THEN [st EXCEPT !.exc = r.exc]
             ELSE ExecuteEntries(
                      [st EXCEPT !.score = Accumulate(st.score, r.mult),
                                 !.verdicts = Judged(st.verdicts,
                                                     Passes(st.fs, action, entries[i]))],
                      action, entries, i + 1)

RECURSIVE ExecuteSteps(_, _, _, _)
\* for step in steps, from step i on; st is [fs, score, exc, verdicts]
ExecuteSteps(st, steps, fail, i) ==
    IF i > Len(steps) \/ st.exc # "none" THEN st
    ELSE LET step == steps[i]
         IN  IF step.action \in MutatingActions
             THEN LET r == ApplyMutation(st.fs, step, fail)
                  IN  ExecuteSteps([st EXCEPT !.fs = r.fs, !.exc = r.exc],
                                   steps, fail, i + 1)
             ELSE IF step.action \in AssertionActions
             THEN ExecuteSteps(ExecuteEntries(st, step.action, step.entries, 1),
                               steps, fail, i + 1)
             ELSE [st EXCEPT !.exc = "Exception"]

\* FilesystemEvaluator.execute(steps): [fs, score, exc, verdicts], score the
\* returned value
execute(f, steps, fail) ==
    LET st == ExecuteSteps([fs |-> f, score |-> 1, exc |-> "none",
                            verdicts |-> <<0, 0>>], steps, fail, 1)
    IN  [st EXCEPT !.score = ExceptClause(st.score, st.exc)]


-----------------------------------------------------------------------------
(* evaluator_router and EvaluatorComb *)

\* The reference answers of the filesystem tasks, by name: step lists.
FsReferenceAnswers == {"file_exists", "dir_is_folder", "write_then_read",
                       "rename_then_rmdir", "touch"}

StepsOf(reference_answer) ==
    CASE reference_answer = "file_exists" ->
            <<Step("exists", NoKey, NoKey, NoKey,
                   <<Entry("tmp/test.txt", NoKey, TRUE, 0)>>)>>
      [] reference_answer = "dir_is_folder" ->
            <<Step("exists", NoKey, NoKey, NoKey,
                   <<Entry("tmp", NoKey, TRUE, 0), Entry("out", NoKey, FALSE, 0)>>),
              Step("type_check", NoKey, NoKey, NoKey,
                   <<Entry("tmp", "folder", FALSE, 0)>>)>>
      [] reference_answer = "write_then_read" ->
            <<Step("create_file", "tmp/test.txt", NoKey, "Hello World!", <<>>),
              Step("content_check", NoKey, NoKey, NoKey,
                   <<Entry("tmp/test.txt", "Hello World!", FALSE, 0)>>),
              Step("permissions_check", NoKey, NoKey, NoKey,
                   <<Entry("tmp/test.txt", "-rw-r--r--", FALSE, 0)>>)>>
      [] reference_answer = "rename_then_rmdir" ->
            <<Step("exists", NoKey, NoKey, NoKey,
                   <<Entry("tmp", NoKey, TRUE, 0)>>),
              Step("rename", "out", "tmp/test.txt", NoKey, <<>>),
              Step("rmdir", "tmp", NoKey, NoKey, <<>>)>>
      [] reference_answer = "touch" ->
            <<Step("touch", "out", NoKey, NoKey, <<>>)>>

\* The eval types evaluator_router has a case for, and the evaluator of each.
EvaluatorClass(eval_type) ==
    CASE eval_type = "google_calendar" -> "GoogleCalendarEvaluator"
      [] eval_type = "filesystem" -> "FilesystemEvaluator"
      [] OTHER -> "unsupported"

\* bridges: the bridge registered under each eval type
Bridges == [google_calendar |-> "calendar_bridge", filesystem |-> "filesystem_bridge"]

\* bridge.get_env_settings()
get_env_settings(bridge) ==
    IF bridge = "calendar_bridge" THEN "calendar_settings" ELSE "filesystem_settings"

\* GoogleCalendarEvaluator(...) / FilesystemEvaluator(...): Evaluator.__init__
Evaluator(class, reference_answer, env, env_settings, reset_actions) ==
    [class |-> class, reference_answer |-> reference_answer, env |-> env,
     env_settings |-> env_settings, reset_actions |-> reset_actions]

\* task_configs.get("reset_actions", [])
GetResetActions(task_config) ==
    IF task_config.has_reset_actions THEN task_config.reset_actions ELSE <<>>

RECURSIVE RouteFrom(_, _, _, _)
\* for eval in task_configs["evals"], from position i on
RouteFrom(task_config, bridges, i, built) ==
    IF i > Len(task_config.evals) THEN [exc |-> "none", evaluators |-> built]
    ELSE LET eval == task_config.evals[i]
         IN  IF EvaluatorClass(eval.eval_type) = "unsupported"
             THEN [exc |-> "ValueError", evaluators |-> <<>>]
             ELSE RouteFrom(task_config, bridges, i + 1,
                     Append(built,
                            Evaluator(EvaluatorClass(eval.eval_type),
                                      eval.reference_answers,
                                      bridges[eval.eval_type],
                                      get_env_settings(bridges[eval.eval_type]),
                                      GetResetActions(task_config))))

\* A router that looks at the type of the first step only.
evaluator_router_first(task_config, bridges) ==
    IF Len(task_config.evals) > 0
       /\ EvaluatorClass(task_config.evals[1].eval_type) = "unsupported"
    THEN [exc |-> "ValueError", evaluators |-> <<>>]
    ELSE [exc |-> "none",
          evaluators |->
             [i \in 1..Len(task_config.evals) |->
                 Evaluator(EvaluatorClass(task_config.evals[i].eval_type),
                           task_config.evals[i].reference_answers, "filesystem_bridge",
                           "filesystem_settings", GetResetActions(task_config))]]

\* A router that builds the list back to front.
evaluator_router_reversed(task_config, bridges) ==
    LET r == RouteFrom(task_config, bridges, 1, <<>>)
    IN  [r EXCEPT !.evaluators =
            [i \in 1..Len(r.evaluators) |-> r.evaluators[Len(r.evaluators) + 1 - i]]]

\* evaluator_router(task_configs, bridges): the evaluators of the returned
\* EvaluatorComb, or the exception raised
evaluator_router(task_config, bridges) == RouteFrom(task_config, bridges, 1, <<>>)

\* EvaluatorComb.__call__: score *= cur_score
CombAccumulateLast(score, cur_score) == cur_score
CombAccumulate(score, cur_score) == score * cur_score

\* EvaluatorComb.__call__: the for loop has a next evaluator
CombContinuesWhileNonZero(score, idx, n) == idx < n /\ score # 0
CombContinues(score, idx, n) == idx < n

\* FilesystemEvaluator.__call__: the score of execute on the reference answer
FilesystemEvaluator_call(f, evaluator, fail) ==
    execute(f, StepsOf(evaluator.reference_answer), fail)

\* GoogleCalendarEvaluator.__call__: 1.0 when every criterion passes, 0.0
\* when one fails or the run raises
GoogleCalendarEvaluator_call(outcome) == IF outcome = "pass" THEN 1 ELSE 0

\* eval_tasks: gained_score += task_score * task_config["score"]
GainedUnweighted(gained, score, weight) == gained + score
Gained(gained, score, weight) == gained + score * weight

Weights == {1, 2}

EvalSteps ==
    {[eval_type |-> "filesystem", reference_answers |-> r] : r \in FsReferenceAnswers}
    \cup {[eval_type |-> "google_calendar", reference_answers |-> "meeting"],
          [eval_type |-> "string_match", reference_answers |-> "text"]}

TaskConfigs ==
    {[evals |-> es, has_reset_actions |-> b,
      reset_actions |-> IF b THEN <<"clear_tmp">> ELSE <<>>] :
        es \in UNION {[1..n -> EvalSteps] : n \in 0..MaxEvals}, b \in BOOLEAN}

NoTask == [evals |-> <<>>, has_reset_actions |-> FALSE, reset_actions |-> <<>>]
NoResult == [num |-> 0, den |-> 0]


-----------------------------------------------------------------------------
(* eval_tasks, one iteration of its loops at a time *)

InitEval ==
    /\ epc = "idle" /\ ntasks = 0 /\ tidx = 0 /\ gained_score = 0 /\ total_score = 0
    /\ task = NoTask /\ evaluators = <<>> /\ cidx = 0 /\ cscore = 1
    /\ task_score = -1 /\ eresult = NoResult /\ eexc = "none" /\ score_weight = 0
    /\ invoked = <<>> /\ cscores = <<>> /\ tfailed = 0 /\ traised = 0
    /\ taskScores = <<>> /\ weights = <<>>

\* eval_tasks(task_configs, env_comb): total_score = 0.0, gained_score = 0.0
eval_tasks_call ==
    /\ UNCHANGED NotEval
    /\ epc = "idle"
    /\ \E n \in 0..MaxTasks : ntasks' = n
    /\ epc' = "tasks"
    /\ UNCHANGED <<fs, tidx, gained_score, total_score, task, evaluators, cidx, cscore,
                   task_score, eresult, eexc, score_weight, invoked, cscores, tfailed,
                   traised, taskScores, weights>>

\* comb = evaluator_router(task_config, env_comb.bridges), then comb() is entered
eval_tasks_route ==
    /\ UNCHANGED NotEval
    /\ epc = "tasks" /\ tidx < ntasks
    /\ \E task_config \in TaskConfigs :
          LET r == evaluator_router(task_config, Bridges)
          IN  /\ task' = task_config
              /\ evaluators' = r.evaluators
              /\ eexc' = r.exc
              /\ epc' = IF r.exc = "none" THEN "comb" ELSE "raised"
    /\ cidx' = 0 /\ cscore' = 1 /\ task_score' = -1
    /\ invoked' = <<>> /\ cscores' = <<>> /\ tfailed' = 0 /\ traised' = 0
    /\ UNCHANGED <<fs, ntasks, tidx, gained_score, total_score, eresult, score_weight,
                   taskScores, weights>>

\* One iteration of the loop of EvaluatorComb.__call__: the next evaluator is
\* invoked and its score multiplied in.
EvaluatorComb_call_evaluator ==
    /\ UNCHANGED NotEval
    /\ epc = "comb" /\ CombContinues(cscore, cidx, Len(evaluators))
    /\ LET evaluator == evaluators[cidx + 1]
       IN  \/ /\ evaluator.class = "FilesystemEvaluator"
              /\ \E fail \in BOOLEAN :
                    LET r == FilesystemEvaluator_call(fs, evaluator, fail)
                    IN  /\ fs' = r.fs
                        /\ cscore' = CombAccumulate(cscore, r.score)
                        /\ cscores' = Append(cscores, r.score)
                        /\ tfailed' = tfailed + r.verdicts[2]
                        /\ traised' = traised + (IF r.exc = "none" THEN 0 ELSE 1)
           \/ /\ evaluator.class # "FilesystemEvaluator"
              /\ \E outcome \in {"pass", "fail", "raise"} :
                    LET cur_score == GoogleCalendarEvaluator_call(outcome)
                    IN  /\ cscore' = CombAccumulate(cscore, cur_score)
                        /\ cscores' = Append(cscores, cur_score)
                        /\ tfailed' = tfailed + (IF outcome = "fail" THEN 1 ELSE 0)
                        /\ traised' = traised + (IF outcome = "raise" THEN 1 ELSE 0)
              /\ UNCHANGED fs
    /\ cidx' = cidx + 1
    /\ invoked' = Append(invoked, cidx + 1)
    /\ UNCHANGED <<epc, ntasks, tidx, gained_score, total_score, task, evaluators,
                   task_score, eresult, eexc, score_weight, taskScores, weights>>

\* EvaluatorComb.__call__: return score; task_score = comb()
EvaluatorComb_return ==
    /\ UNCHANGED NotEval
    /\ epc = "comb" /\ ~CombContinues(cscore, cidx, Len(evaluators))
    /\ task_score' = cscore
    /\ epc' = "scored"
    /\ UNCHANGED <<fs, ntasks, tidx, gained_score, total_score, task, evaluators, cidx,
                   cscore, eresult, eexc, score_weight, invoked, cscores, tfailed,
                   traised, taskScores, weights>>

\* gained_score += task_score * task_config["score"]; total_score += task_config["score"]
eval_tasks_accumulate ==
    /\ UNCHANGED NotEval
    /\ epc = "scored"
    /\ \E weight \in Weights :
          /\ gained_score' = Gained(gained_score, task_score, weight)
          /\ total_score' = total_score + weight
          /\ weights' = Append(weights, weight)
    /\ taskScores' = Append(taskScores, task_score)
    /\ tidx' = tidx + 1
    /\ epc' = "tasks"
    /\ task' = NoTask /\ evaluators' = <<>> /\ cidx' = 0 /\ cscore' = 1
    /\ task_score' = -1 /\ invoked' = <<>> /\ cscores' = <<>>
    /\ tfailed' = 0 /\ traised' = 0
    /\ UNCHANGED <<fs, ntasks, eresult, eexc, score_weight>>

\* return (gained_score / total_score) * task_configs["score_weight"]
eval_tasks_return ==
    /\ UNCHANGED NotEval
    /\ epc = "tasks" /\ tidx = ntasks
    /\ \E w \in Weights :
          /\ score_weight' = w
          /\ IF total_score = 0
             THEN /\ epc' = "raised" /\ eexc' = "ZeroDivisionError"
                  /\ UNCHANGED eresult
             ELSE /\ epc' = "returned"
                  /\ eresult' = [num |-> gained_score * w, den |-> total_score]
                  /\ UNCHANGED eexc
    /\ UNCHANGED <<fs, ntasks, tidx, gained_score, total_score, task, evaluators, cidx,
                   cscore, task_score, invoked, cscores, tfailed, traised, taskScores,
                   weights>>

\* The caller is back; eval_tasks can be called again on the tree it left.
eval_tasks_again ==
    /\ UNCHANGED NotEval
    /\ epc \in {"returned", "raised"}
    /\ epc' = "idle" /\ ntasks' = 0 /\ tidx' = 0 /\ gained_score' = 0
    /\ total_score' = 0 /\ task' = NoTask /\ evaluators' = <<>> /\ cidx' = 0
    /\ cscore' = 1 /\ task_score' = -1 /\ eresult' = NoResult /\ eexc' = "none"
    /\ score_weight' = 0 /\ invoked' = <<>> /\ cscores' = <<>> /\ tfailed' = 0
    /\ traised' = 0 /\ taskScores' = <<>> /\ weights' = <<>>
    /\ UNCHANGED fs

\* The trees of the repository's filesystem test: tmp/test.txt written, then
\* removed, then tmp removed too.
TestTrees ==
    {[p \in Paths |-> CASE p = "tmp" -> Dir(493)
                        [] p = "tmp/test.txt" -> File("Hello World!", 420)
                        [] OTHER -> Absent],
     [p \in Paths |-> IF p = "tmp" THEN Dir(493) ELSE Absent],
     [p \in Paths |-> Absent]}

-----------------------------------------------------------------------------
(* GoogleCalendarService.event_match_left and match_time.  A dateTime is   *)
(* the ISO string of a wall-clock hour and a UTC offset in hours, written  *)
(* [wall, off]; a start or end value is a dict that holds a dateTime, or   *)
(* only a date (an all-day event).                                         *)

NoTime == [kind |-> "absent", wall |-> 0, off |-> 0]
DateOnly == [kind |-> "date", wall |-> 0, off |-> 0]
DateTime(w, o) == [kind |-> "dateTime", wall |-> w, off |-> o]

TimeValues == {DateOnly, DateTime(10, 0), DateTime(5, -5), DateTime(5, 0)}
Summaries == {"Sync", "Review"}

StringKeys == {"summary", "description", "location"}
TimeKeys == {"start", "end"}
\* the keys of the modelled events; id is a key the matcher has no case for
EventKeys == {"summary", "location", "start", "end", "id"}

\* time zones: the offset before and from the hour the clocks change
LocalZones == {[std |-> 0, dst |-> 0], [std |-> -5, dst |-> -4]}
LocalOffset(zone, instant) == IF instant >= 12 THEN zone.dst ELSE zone.std

\* datetime.fromisoformat(s): the instant (UTC hour) an aware datetime denotes
Instant(dt) == dt.wall - dt.off

\* datetime.fromisoformat(s).astimezone().isoformat(): the same instant written
\* in the local zone
LocalIso(zone, dt) ==
    [wall |-> Instant(dt) + LocalOffset(zone, Instant(dt)),
     off |-> LocalOffset(zone, Instant(dt))]

\* A comparison of the two strings as they are written.
match_time_raw(zone, ref, pred_time) ==
    [wall |-> ref.wall, off |-> ref.off] = [wall |-> pred_time.wall, off |-> pred_time.off]

\* GoogleCalendarService.match_time(ref, pred)
match_time(zone, ref, pred_time) == LocalIso(zone, ref) = LocalIso(zone, pred_time)

\* An item of ref is [key, text, time]; pred is a record of the event keys.
Item(k, s, t) == [key |-> k, text |-> s, time |-> t]

\* One iteration of the loop of event_match_left: "continue", or the "False"
\* returned, or the "TypeError" raised by "dateTime" in None
MatchItem(zone, item, pred_event) ==
    IF item.key \in StringKeys
    THEN IF item.text # pred_event[item.key].text THEN "False" ELSE "continue"
    ELSE IF item.key \in TimeKeys
    THEN LET pred_item == pred_event[item.key].time
         IN  IF item.time.kind # "dateTime" THEN "False"
             ELSE IF pred_item.kind = "absent" THEN "TypeError"
             ELSE IF pred_item.kind # "dateTime" THEN "False"
             ELSE IF match_time(zone, item.time, pred_item) THEN "continue"
             ELSE "False"
    ELSE "continue"

\* What the matcher is to decide for one key of ref: the strings are equal,
\* the two dateTimes denote the same instant.
ItemAgrees(item, pred_event) ==
    /\ item.key \in StringKeys => pred_event[item.key].text = item.text
    /\ item.key \in TimeKeys =>
          /\ item.time.kind = "dateTime"
          /\ pred_event[item.key].time.kind = "dateTime"
          /\ item.time.wall - item.time.off
                = pred_event[item.key].time.wall - pred_event[item.key].time.off

\* The values an event may hold under a key (NoKey, NoTime: the key is absent).
ValuesOf(k) ==
    IF k \in TimeKeys THEN {[text |-> NoKey, time |-> t] : t \in TimeValues}
    ELSE IF k = "summary" THEN {[text |-> t, time |-> NoTime] : t \in Summaries}
    ELSE {[text |-> k, time |-> NoTime]}
NoValue == [text |-> NoKey, time |-> NoTime]

Events == {e \in [EventKeys -> UNION {ValuesOf(k) : k \in EventKeys} \cup {NoValue}] :
              \A k \in EventKeys : e[k] \in ValuesOf(k) \cup {NoValue}}

NoEvent == [k \in EventKeys |-> NoValue]

InitMatch ==
    /\ mpc = "idle" /\ pred = NoEvent /\ mn = 0 /\ mref = <<>>
    /\ mresult = "none" /\ mallmatch = TRUE

\* event_match_left(ref, pred) is entered
event_match_left_call ==
    /\ UNCHANGED NotMatch
    /\ mpc = "idle"
    /\ \E e \in Events, n \in 0..MaxRefKeys : pred' = e /\ mn' = n
    /\ mpc' = "loop"
    /\ UNCHANGED <<localZone, mref, mresult, mallmatch>>

\* for key, item in ref.items(): one item
event_match_left_item ==
    /\ UNCHANGED NotMatch
    /\ mpc = "loop" /\ Len(mref) < mn
    /\ \E k \in EventKeys \ {mref[i].key : i \in 1..Len(mref)} :
          \E v \in ValuesOf(k) :
             LET item == Item(k, v.text, v.time)
                 r == MatchItem(localZone, item, pred)
             IN  /\ mref' = Append(mref, item)
                 /\ mallmatch' = (mallmatch /\ ItemAgrees(item, pred))
                 /\ IF r = "continue"
                    THEN UNCHANGED <<mpc, mresult>>
                    ELSE mpc' = "returned" /\ mresult' = r
    /\ UNCHANGED <<localZone, pred, mn>>

\* every item of ref was visited: return True
event_match_left_return ==
    /\ UNCHANGED NotMatch
    /\ mpc = "loop" /\ Len(mref) = mn
    /\ mpc' = "returned" /\ mresult' = "True"
    /\ UNCHANGED <<localZone, pred, mn, mref, mallmatch>>

\* The caller is back; the matcher can be called on another pair.
event_match_left_again ==
    /\ UNCHANGED NotMatch
    /\ mpc = "returned"
    /\ mpc' = "idle" /\ pred' = NoEvent /\ mn' = 0 /\ mref' = <<>>
    /\ mresult' = "none" /\ mallmatch' = TRUE
    /\ UNCHANGED localZone

-----------------------------------------------------------------------------
(* export_trajectory and load_result.  A string is a sequence of           *)
(* characters, and so is result.jsonl.  Of a result only task_id, score    *)
(* and feedback are kept, and a JSON object is written as the list of the  *)
(* three values, without its keys.                                         *)

Quote == "\""
Backslash == "\\"
Newline == "\n"

TaskIds == {<<"a">>, <<"b">>}
Feedbacks == {<<>>, <<"k">>, <<Newline>>, <<Backslash, Quote>>}
Scores == {0, 1}

TaskResult(t, sc, fb) == [task_id |-> t, score |-> sc, feedback |-> fb]
TaskResults == {TaskResult(t, sc, fb) : t \in TaskIds, sc \in Scores, fb \in Feedbacks}
NoRecord == [task_id |-> <<>>, score |-> -1, feedback |-> <<>>]

\* json.dumps of a str, without the enclosing quotes
RECURSIVE Escape(_)
Escape(str) ==
    IF str = <<>> THEN <<>>
    ELSE LET c == Head(str)
         IN  (IF c = Quote THEN <<Backslash, Quote>>
              ELSE IF c = Backslash THEN <<Backslash, Backslash>>
              ELSE IF c = Newline THEN <<Backslash, "n">>
              ELSE <<c>>) \o Escape(Tail(str))

\* json.dumps of a float that holds 0.0 or 1.0
FloatRepr(x) == IF x = 1 THEN <<"1", ".", "0">> ELSE <<"0", ".", "0">>

\* json.dumps(item)
json_dumps(item) ==
    <<"[", Quote>> \o Escape(item.task_id) \o <<Quote, ",">> \o FloatRepr(item.score)
        \o <<",", Quote>> \o Escape(item.feedback) \o <<Quote, "]">>

\* json.loads of a str whose opening quote is at i - 1:
\* the str, and the position after the closing quote (0: the text is not JSON)
RECURSIVE ScanString(_, _, _)
ScanString(line, i, acc) ==
    IF i > Len(line) THEN [str |-> acc, next |-> 0]
    ELSE IF line[i] = Quote THEN [str |-> acc, next |-> i + 1]
    ELSE IF line[i] = Backslash
    THEN IF i + 1 > Len(line) THEN [str |-> acc, next |-> 0]
         ELSE ScanString(line, i + 2,
                         Append(acc, IF line[i + 1] = "n" THEN Newline ELSE line[i + 1]))
    ELSE ScanString(line, i + 1, Append(acc, line[i]))

\* json.loads of a float: 0.0 and 1.0, or -1 when the text is neither
ScanFloat(line, i) ==
    IF i + 2 > Len(line) THEN -1
    ELSE IF SubSeq(line, i, i + 2) = <<"1", ".", "0">> THEN 1
    ELSE IF SubSeq(line, i, i + 2) = <<"0", ".", "0">> THEN 0
    ELSE -1

\* json.loads(line): [exc, item]
json_loads(line) ==
    IF Len(line) < 2 \/ SubSeq(line, 1, 2) # <<"[", Quote>>
    THEN [exc |-> "JSONDecodeError", item |-> NoRecord]
    ELSE LET t == ScanString(line, 3, <<>>)
             sc == ScanFloat(line, t.next + 1)
             q == t.next + 5
             f == ScanString(line, q + 1, <<>>)
         IN  IF /\ t.next # 0 /\ t.next <= Len(line) /\ line[t.next] = ","
                /\ sc # -1
                /\ q <= Len(line) /\ SubSeq(line, q - 1, q) = <<",", Quote>>
                /\ f.next = Len(line) /\ line[f.next] = "]"
             THEN [exc |-> "none", item |-> TaskResult(t.str, sc, f.str)]
             ELSE [exc |-> "JSONDecodeError", item |-> NoRecord]

\* for line in file: the lines of the file, each without its newline
RECURSIVE FileLines(_, _, _)
FileLines(content, line, acc) ==
    IF content = <<>> THEN (IF line = <<>> THEN acc ELSE Append(acc, line))
    ELSE IF Head(content) = Newline THEN FileLines(Tail(content), <<>>, Append(acc, line))
    ELSE FileLines(Tail(content), Append(line, Head(content)), acc)

\* read_jsonl(file_path) with the default start_idx and end_idx: [exc, data]
read_jsonl(exists_, content) ==
    LET lines == FileLines(content, <<>>, <<>>)
        data == [i \in 1..Len(lines) |-> json_loads(lines[i])]
    IN  IF ~exists_ THEN [exc |-> "FileNotFoundError", data |-> <<>>]
        ELSE IF \E i \in 1..Len(lines) : data[i].exc # "none"
        THEN [exc |-> "JSONDecodeError", data |-> <<>>]
        ELSE [exc |-> "none", data |-> [i \in 1..Len(lines) |-> data[i].item]]

\* add_jsonl(data, file_path) with the default mode "a", on a one-item list
add_jsonl(item, content) == content \o json_dumps(item) \o <<Newline>>

\* load_result(result_dir): [exc, result]
load_result(exists_, content) ==
    LET result_raw == read_jsonl(exists_, content)
    IN  IF result_raw.exc # "none" THEN [exc |-> result_raw.exc, result |-> NoRecord]
        ELSE IF Len(result_raw.data) = 0 THEN [exc |-> "IndexError", result |-> NoRecord]
        ELSE [exc |-> "none", result |-> result_raw.data[1]]

NotLoaded == [exc |-> "none", result |-> NoRecord]

InitJson ==
    /\ jexists = FALSE /\ result_jsonl = <<>> /\ jpc = "idle"
    /\ exported = NoRecord /\ loaded = NotLoaded

\* export_trajectory(task_config, trajectory, path, score, feedback, token_count)
export_trajectory_call ==
    /\ UNCHANGED NotJson
    /\ jpc = "idle"
    /\ Len(FileLines(result_jsonl, <<>>, <<>>)) < MaxLines
    /\ \E result \in TaskResults :
          /\ result_jsonl' = add_jsonl(result, result_jsonl)
          /\ exported' = result
    /\ jexists' = TRUE
    /\ jpc' = "exported"
    /\ UNCHANGED loaded

\* load_result(path), right after an export or on the directory as it is
load_result_call ==
    /\ UNCHANGED NotJson
    /\ jpc \in {"idle", "exported"}
    /\ loaded' = load_result(jexists, result_jsonl)
    /\ jpc' = "loaded"
    /\ UNCHANGED <<jexists, result_jsonl, exported>>

\* The run is over; the directory stays as it is for the next one.
result_dir_again ==
    /\ UNCHANGED NotJson
    /\ jpc \in {"exported", "loaded"}
    /\ jpc' = "idle" /\ exported' = NoRecord /\ loaded' = NotLoaded
    /\ UNCHANGED <<jexists, result_jsonl>>

-----------------------------------------------------------------------------
(* AgentInterface and its worker threads (agent_interface.py).  A worker's *)
(* signals reach the GUI thread through its event queue; only the signals  *)
(* whose slots change the modelled state are kept (status bar and display  *)
(* texts are left out).  Tasks are not visual.                             *)

ThreadIds == 1..MaxThreads

\* config.need_human_confirmation
need_human_confirmation == TRUE
TaskNames == {"A"}
InputTexts == {"y", "n"}

NoThread ==
    [kind |-> "none", pc |-> "none", mutex |-> "free", user_input |-> "unset",
     accepted |-> FALSE, polled |-> FALSE, reset_ok |-> FALSE, last |-> "none",
     results |-> 0, step_num |-> 0, asked |-> FALSE, got |-> "unset"]

\* QThread.start() on a new ResetRuntimeThread, RunTaskThread, EvalTaskThread
\* or StepActionThread
NewThread(kind, step_num) ==
    [NoThread EXCEPT !.kind = kind, !.step_num = step_num,
        !.pc = CASE kind = "ResetRuntimeThread" -> "runtime_reset"
                 [] kind = "StepActionThread" -> "step_action"
                 [] OTHER -> "submit"]

\* run() has not returned and no exception has left it
Running(t) == t.pc \notin {"none", "finished", "failed"}
RunningThreads == {w \in ThreadIds : Running(threads[w])}

Signal(sig, w) == [sig |-> sig, src |-> w]

\* signal.emit(...): the slot runs later, in the GUI thread
Emit(q, sig, w) == Append(q, Signal(sig, w))
CanEmit == Len(events) < MaxEvents

\* HTTP responses: the status code and the fields of the body the code reads
HttpCodes == {200, 500}
SubmitResponses == {[code |-> c, status |-> st] : c \in HttpCodes, st \in {"submitted", "error"}}
PlainResponses == {[code |-> c, status |-> st] : c \in HttpCodes, st \in {"success", "error"}}
StatusResponses ==
    {[code |-> c, status |-> st] : c \in HttpCodes,
        st \in {"pending", "in_progress", "wait_for_input", "finished", "cancelled"}}
ResultResponses ==
    {[code |-> c, status |-> st, result |-> r] :
        c \in HttpCodes, st \in {"finished", "in_progress"}, r \in {"success", "error"}}

\* assert response_raw.status_code == 200; assert response.status == expected
Accepted(response, expected) == response.code = 200 /\ response.status = expected

\* RunTaskThread.reset_task: the asserts after GET /task/result
ResetSucceededAny(response) == response.code = 200
ResetSucceeded(response) ==
    response.code = 200 /\ response.status = "finished" /\ response.result = "success"

\* EvalTaskThread.run: the asserts after GET /task/result (result = "success"
\* stands for a message that is a dict)
EvalReceived(response) ==
    response.code = 200 /\ response.status = "finished" /\ response.result = "success"

\* An assert fails or an exception is raised in run(): the thread is over.
\* A thread that takes the failure for a normal return:
FailedAsReturn(t) == [NoThread EXCEPT !.kind = t.kind, !.pc = "finished"]
Failed(t) == [NoThread EXCEPT !.kind = t.kind, !.pc = "failed"]

\* run() returns.  Of a thread that is over only its class and its result
\* queue are read.
Finished(t) == [NoThread EXCEPT !.kind = t.kind, !.pc = "finished", !.results = t.results]

GuiUnchanged ==
    UNCHANGED <<button, selected_task, current_thread,
                current_step_num, dialogs, gpc, aborted, run_finished, saved,
                lost_wake>>

\* ResetRuntimeThread.run
ResetRuntimeThread_run(w) ==
    /\ UNCHANGED NotGui /\ GuiUnchanged
    /\ ~aborted
    /\ threads[w].pc = "runtime_reset"
    /\ \E response \in PlainResponses :
          IF Accepted(response, "success")
          THEN /\ CanEmit
               /\ events' = Emit(events, "start_signal", 0)
               /\ threads' = [threads EXCEPT ![w] = Finished(@)]
          ELSE /\ threads' = [threads EXCEPT ![w] = Failed(@)]
               /\ UNCHANGED events

\* RunTaskThread.reset_task: POST /task/reset; EvalTaskThread.run: POST /task/eval
Thread_submit(w) ==
    /\ UNCHANGED NotGui /\ GuiUnchanged
    /\ ~aborted
    /\ threads[w].pc = "submit"
    /\ \E response \in SubmitResponses :
          threads' = [threads EXCEPT ![w] =
             IF Accepted(response, "submitted")
             THEN [@ EXCEPT !.pc = "poll", !.accepted = TRUE]
             ELSE Failed(@)]
    /\ UNCHANGED events

\* _wait_finish of RunTaskThread and EvalTaskThread: what follows one
\* GET /task/status.  A loop that takes "in_progress" for the end:
WaitFinishLeavesEarly(t, response, need_confirmation) ==
    IF response.code # 200 THEN Failed(t)
    ELSE IF response.status \in {"finished", "in_progress"}
    THEN [t EXCEPT !.pc = "result", !.polled = TRUE, !.last = response.status]
    ELSE t

\* _wait_finish: the body of the while loop up to its first blocking call;
\* last is the status the loop was left on
WaitFinishStep(t, response, need_confirmation) ==
    IF response.code # 200 THEN Failed(t)
    ELSE IF response.status = "finished"
    THEN [t EXCEPT !.pc = "result", !.polled = TRUE, !.last = response.status]
    ELSE IF response.status = "wait_for_input"
    THEN IF t.kind = "RunTaskThread" /\ ~need_confirmation
         THEN [t EXCEPT !.pc = "confirm_y"]
         ELSE [t EXCEPT !.pc = "lock"]
    ELSE IF response.status \in {"pending", "in_progress"}
    THEN t
    ELSE Failed(t)

\* _wait_finish: GET /task/status, then time.sleep(1) on pending / in_progress
WaitFinish_poll(w) ==
    /\ UNCHANGED NotGui /\ GuiUnchanged
    /\ ~aborted
    /\ threads[w].pc = "poll"
    /\ \E response \in StatusResponses :
          threads' = [threads EXCEPT ![w] =
                         WaitFinishStep(@, response, need_human_confirmation)]
    /\ UNCHANGED events

\* _wait_finish: self.mutex.lock();
\* self.signals.show_input_dialog_signal.emit(response.content)
WaitFinish_lock_emit(w) ==
    /\ UNCHANGED NotGui /\ GuiUnchanged
    /\ ~aborted
    /\ threads[w].pc = "lock" /\ threads[w].mutex = "free" /\ CanEmit
    /\ events' = Emit(events, "show_input_dialog_signal", w)
    /\ threads' = [threads EXCEPT ![w].mutex = "worker", ![w].pc = "wait",
                                  ![w].asked = TRUE, ![w].got = "unset"]

\* _wait_finish: self.wait_condition.wait(self.mutex) releases the mutex and
\* blocks
WaitFinish_wait(w) ==
    /\ UNCHANGED NotGui /\ GuiUnchanged
    /\ ~aborted
    /\ threads[w].pc = "wait"
    /\ threads' = [threads EXCEPT ![w].mutex = "free", ![w].pc = "waiting"]
    /\ UNCHANGED events

\* _wait_finish: wait() returns with the mutex, self.mutex.unlock(),
\* user_input = self.user_input ("y" without human confirmation), POST
\* /task/confirm with the message, then time.sleep(1).  self.user_input is
\* read again only after the next wakeAll, which follows a write to it: the
\* value that was sent is not kept.
WaitFinish_confirm(w) ==
    /\ UNCHANGED NotGui /\ GuiUnchanged
    /\ ~aborted
    /\ \/ threads[w].pc = "confirm_y"
       \/ threads[w].pc = "woken" /\ threads[w].mutex = "free"
    /\ \E response \in PlainResponses :
          threads' = [threads EXCEPT ![w] =
             IF Accepted(response, "success")
             THEN [@ EXCEPT !.pc = "poll", !.asked = FALSE, !.user_input = "unset"]
             ELSE Failed(@)]
    /\ UNCHANGED events

\* RunTaskThread.reset_task after _wait_finish: GET /task/result, agent.reset;
\* RunTaskThread.run: agent.generate_action(obs), confirm_signal.emit(True)
RunTaskThread_generate(w) ==
    /\ UNCHANGED NotGui /\ GuiUnchanged
    /\ ~aborted
    /\ threads[w].kind = "RunTaskThread" /\ threads[w].pc = "result"
    /\ \E response \in ResultResponses :
          IF ResetSucceeded(response)
          THEN /\ CanEmit
               /\ events' = Emit(events, "confirm_signal", 0)
               /\ threads' = [threads EXCEPT ![w].pc = "emit_decline",
                     ![w].reset_ok = (response.status = "finished"
                                         /\ response.result = "success")]
          ELSE /\ threads' = [threads EXCEPT ![w] = Failed(@)]
               /\ UNCHANGED events

\* RunTaskThread.run, StepActionThread.run: decline_signal.emit(True), the last
\* statement
Thread_emit_decline(w) ==
    /\ UNCHANGED NotGui /\ GuiUnchanged
    /\ ~aborted
    /\ threads[w].pc = "emit_decline" /\ CanEmit
    /\ events' = Emit(events, "decline_signal", 0)
    /\ threads' = [threads EXCEPT ![w] = Finished(@)]

\* EvalTaskThread.run after _wait_finish: GET /task/result, agent.eval(), the
\* two result_queue.put, save_trajectory_signal.emit()
EvalTaskThread_result(w) ==
    /\ UNCHANGED NotGui /\ GuiUnchanged
    /\ ~aborted
    /\ threads[w].kind = "EvalTaskThread" /\ threads[w].pc = "result"
    /\ \E response \in ResultResponses :
          IF EvalReceived(response)
          THEN /\ CanEmit
               /\ events' = Emit(events, "save_trajectory_signal", 0)
               /\ threads' = [threads EXCEPT ![w] = Finished([@ EXCEPT !.results = 2])]
          ELSE /\ threads' = [threads EXCEPT ![w] = Failed(@)]
               /\ UNCHANGED events

\* StepActionThread.run: the step is the last one
LastStep(done, step_num) == done \/ step_num >= max_step

\* StepActionThread.run
StepActionThread_run(w) ==
    /\ UNCHANGED NotGui /\ GuiUnchanged
    /\ ~aborted
    /\ threads[w].pc = "step_action" /\ CanEmit
    /\ \E done \in BOOLEAN :
          IF LastStep(done, threads[w].step_num)
          THEN /\ events' = Emit(events, "finish_run_task_signal", 0)
               /\ threads' = [threads EXCEPT ![w] = Finished(@)]
          ELSE /\ events' = Emit(events, "confirm_signal", 0)
               /\ threads' = [threads EXCEPT ![w].pc = "emit_decline"]

\* The GUI thread is in its event loop (that of the window, or that of the
\* exec() of the innermost dialog).
Idle == [at |-> "idle", text |-> "unset", src |-> 0]

\* qFatal ends the process: nothing of it is left.
Abort ==
    /\ aborted' = TRUE
    /\ button' = [k \in DOMAIN button |-> FALSE]
    /\ selected_task' = "None" /\ current_thread' = 1 /\ current_step_num' = 1
    /\ threads' = [w \in ThreadIds |-> NoThread]
    /\ events' = <<>> /\ dialogs' = <<>> /\ gpc' = Idle
    /\ run_finished' = FALSE /\ saved' = FALSE /\ lost_wake' = FALSE

\* qFatal: an exception left run(), or a QThread object that is no longer
\* referenced is destroyed at the end of its run()
qFatal ==
    /\ UNCHANGED NotGui
    /\ ~aborted
    /\ \E w \in ThreadIds :
          \/ threads[w].pc = "failed"
          \/ threads[w].pc = "finished" /\ w # current_thread
    /\ Abort

GuiIdle == ~aborted /\ gpc = Idle
\* A click reaches the window: no modal dialog is open.
CanClick == GuiIdle /\ dialogs = <<>>

\* self.current_thread = <new thread>; self.current_thread.start().  The
\* object current_thread referred to is dropped: it goes away at once when
\* its run() is over, and at the end of its run() otherwise.
Dropped == [threads EXCEPT ![current_thread] = IF @.pc = "finished" THEN NoThread ELSE @]
SlotsAfterDrop == {w \in ThreadIds : Dropped[w].pc \in {"none", "finished"}}
CanStart == SlotsAfterDrop # {}
StartSlot == CHOOSE w \in SlotsAfterDrop : \A v \in SlotsAfterDrop : w <= v
Started(kind, step_num) == [Dropped EXCEPT ![StartSlot] = NewThread(kind, step_num)]

Disabled(b, names) == [k \in DOMAIN b |-> IF k \in names THEN FALSE ELSE b[k]]
Enabled(b, names) == [k \in DOMAIN b |-> IF k \in names THEN TRUE ELSE b[k]]

\* AgentInterface.reset, the slot of the Next task button
AgentInterface_reset ==
    /\ UNCHANGED NotGui
    /\ CanClick /\ button.next /\ CanStart
    /\ button' = Enabled(Disabled(button, {"eval", "start", "confirm", "decline"}),
                         {"select"})
    /\ selected_task' = "None"
    /\ threads' = Started("ResetRuntimeThread", 0)
    /\ current_thread' = StartSlot
    /\ run_finished' = FALSE /\ saved' = FALSE
    /\ UNCHANGED <<current_step_num, events, dialogs, gpc, aborted, lost_wake>>

\* AgentInterface.select_task_instruction, the slot of a double click in the
\* task list
select_task_instruction ==
    /\ UNCHANGED NotGui
    /\ CanClick /\ button.select
    /\ \E item \in TaskNames : selected_task' = item
    /\ button' = Enabled(button, {"start"})
    /\ UNCHANGED <<current_thread, current_step_num,
                   threads, events, dialogs, gpc, aborted, run_finished, saved,
                   lost_wake>>

\* AgentInterface.run_task, the slot of the Start button
run_task ==
    /\ UNCHANGED NotGui
    /\ CanClick /\ button.start
    /\ IF selected_task = "None"
       THEN /\ button' = Enabled(button, {"select"})
            /\ UNCHANGED <<threads, current_thread, run_finished>>
       ELSE /\ CanStart
            /\ button' = Disabled(button, {"select", "start", "eval", "confirm",
                                           "decline", "next"})
            /\ threads' = Started("RunTaskThread", 0)
            /\ current_thread' = StartSlot
            /\ run_finished' = FALSE
    /\ UNCHANGED <<selected_task, current_step_num, events,
                   dialogs, gpc, aborted, saved, lost_wake>>

\* AgentInterface.eval_task, the slot of the Evaluate button
eval_task ==
    /\ UNCHANGED NotGui
    /\ CanClick /\ button.eval
    /\ button' = Disabled(button, {"start", "eval", "confirm", "decline", "next"})
    /\ IF selected_task = "None"
       THEN UNCHANGED <<threads, current_thread, saved>>
       ELSE /\ CanStart
            /\ threads' = Started("EvalTaskThread", 0)
            /\ current_thread' = StartSlot
            /\ saved' = FALSE
    /\ UNCHANGED <<selected_task, current_step_num, events,
                   dialogs, gpc, aborted, run_finished, lost_wake>>

\* AgentInterface.step_action, the slot of the Accept button
step_action ==
    /\ UNCHANGED NotGui
    /\ CanClick /\ button.confirm /\ CanStart
    /\ button' = Disabled(button, {"confirm", "decline"})
    /\ threads' = Started("StepActionThread", current_step_num)
    /\ current_thread' = StartSlot
    /\ current_step_num' = IF current_step_num < max_step THEN current_step_num + 1
                           ELSE current_step_num
    /\ UNCHANGED <<selected_task, events, dialogs, gpc,
                   aborted, run_finished, saved, lost_wake>>

\* AgentInterface.finish_run_task: the buttons it leaves, and whether its
\* assert held
finish_run_task(b) ==
    IF selected_task = "None" THEN b
    ELSE Enabled(Disabled(b, {"confirm", "decline", "start"}), {"eval"})

\* AgentInterface.reject_action, the slot of the Reject button
reject_action ==
    /\ UNCHANGED NotGui
    /\ CanClick /\ button.decline
    /\ \/ selected_task = "None" /\ Abort
       \/ /\ button' = finish_run_task(Disabled(button, {"confirm", "decline"}))
          /\ run_finished' = (run_finished \/ selected_task # "None")
          /\ UNCHANGED <<selected_task, current_thread, current_step_num, threads,
                         events, dialogs, gpc, aborted, saved, lost_wake>>

\* The button a signal is connected to through setEnabled.
ButtonOf(sig) ==
    CASE sig = "start_signal" -> "start"
      [] sig = "confirm_signal" -> "confirm"
      [] sig = "decline_signal" -> "decline"

\* QPushButton.setEnabled(True), the slot of start_signal, confirm_signal and
\* decline_signal
setEnabled ==
    /\ UNCHANGED NotGui
    /\ GuiIdle /\ events # <<>>
    /\ Head(events).sig \in {"start_signal", "confirm_signal", "decline_signal"}
    /\ button' = Enabled(button, {ButtonOf(Head(events).sig)})
    /\ events' = Tail(events)
    /\ UNCHANGED <<selected_task, current_thread,
                   current_step_num, threads, dialogs, gpc, aborted, run_finished,
                   saved, lost_wake>>

\* AgentInterface.finish_run_task, the slot of finish_run_task_signal
finish_run_task_slot ==
    /\ UNCHANGED NotGui
    /\ GuiIdle /\ events # <<>>
    /\ Head(events).sig = "finish_run_task_signal"
    /\ \/ selected_task = "None" /\ Abort
       \/ /\ events' = Tail(events)
          /\ button' = finish_run_task(button)
          /\ run_finished' = (run_finished \/ selected_task # "None")
          /\ UNCHANGED <<selected_task, current_thread, current_step_num, threads,
                         dialogs, gpc, aborted, saved, lost_wake>>

\* AgentInterface.save_trajectory: export_trajectories(...) and
\* self.next_button.setEnabled(True), once both results were taken
save_trajectory_export ==
    /\ threads' = [threads EXCEPT ![current_thread].results = 0]
    /\ button' = Enabled(button, {"next"})
    /\ saved' = TRUE
    /\ gpc' = Idle

\* AgentInterface.save_trajectory, the slot of save_trajectory_signal, up to
\* the first current_thread_result.get() that finds the queue empty
save_trajectory ==
    /\ UNCHANGED NotGui
    /\ GuiIdle /\ events # <<>>
    /\ Head(events).sig = "save_trajectory_signal"
    /\ LET raises == selected_task = "None"
                         \/ threads[current_thread].kind # "EvalTaskThread"
       IN  \/ raises /\ Abort
           \/ /\ events' = Tail(events)
              /\ IF raises THEN UNCHANGED <<threads, button, saved, gpc>>
                 ELSE IF threads[current_thread].results = 0
                 THEN /\ gpc' = [Idle EXCEPT !.at = "get"]
                      /\ UNCHANGED <<threads, button, saved>>
                 ELSE save_trajectory_export
              /\ UNCHANGED <<selected_task, current_thread, current_step_num,
                             dialogs, aborted, run_finished, lost_wake>>

\* AgentInterface.save_trajectory: the blocked current_thread_result.get()
\* returns
save_trajectory_get ==
    /\ UNCHANGED NotGui
    /\ ~aborted /\ gpc.at = "get"
    /\ threads[current_thread].results > 0
    /\ save_trajectory_export
    /\ UNCHANGED <<selected_task, current_thread,
                   current_step_num, events, dialogs, aborted, run_finished,
                   lost_wake>>

\* AgentInterface.show_input_dialog, the slot of show_input_dialog_signal, up
\* to dlg.exec()
show_input_dialog ==
    /\ UNCHANGED NotGui
    /\ GuiIdle /\ events # <<>>
    /\ Head(events).sig = "show_input_dialog_signal"
    /\ events' = Tail(events)
    /\ dialogs' = Append(dialogs, Head(events).src)
    /\ UNCHANGED <<button, selected_task, current_thread,
                   current_step_num, threads, gpc, aborted, run_finished, saved,
                   lost_wake>>

\* show_input_dialog: dlg.exec() returns Accepted with the text typed, and
\* self.current_thread.receive_user_input(user_input) is called
show_input_dialog_accepted ==
    /\ UNCHANGED NotGui
    /\ GuiIdle /\ dialogs # <<>>
    /\ LET raises == threads[current_thread].kind
                         \notin {"RunTaskThread", "EvalTaskThread"}
       IN  \/ raises /\ Abort
           \/ /\ dialogs' = SubSeq(dialogs, 1, Len(dialogs) - 1)
              /\ \E text \in InputTexts :
                    gpc' = IF raises THEN Idle
                           ELSE [at |-> "receive_user_input", text |-> text,
                                 src |-> dialogs[Len(dialogs)]]
              /\ UNCHANGED <<button, selected_task, current_thread, current_step_num,
                             threads, events, aborted, run_finished, saved, lost_wake>>

\* show_input_dialog: the dialog is closed without an answer and the assert
\* on the result of dlg.exec() fails
show_input_dialog_rejected ==
    /\ UNCHANGED NotGui
    /\ GuiIdle /\ dialogs # <<>>
    /\ \/ Abort
       \/ /\ dialogs' = SubSeq(dialogs, 1, Len(dialogs) - 1)
          /\ UNCHANGED <<button, selected_task, current_thread, current_step_num,
                         threads, events, gpc, aborted, run_finished, saved,
                         lost_wake>>

\* wakeAll() resumes the thread when it is blocked in wait()
wakeAll(t) == IF t.pc = "waiting" THEN [t EXCEPT !.pc = "woken"] ELSE t

\* receive_user_input of RunTaskThread and EvalTaskThread, called in the GUI
\* thread: lock, store the text, wakeAll, unlock
receive_user_input ==
    /\ UNCHANGED NotGui
    /\ ~aborted /\ gpc.at = "receive_user_input"
    /\ threads[current_thread].mutex = "free"
    /\ threads' =
          [w \in ThreadIds |->
              LET t == IF w = gpc.src /\ threads[w].asked
                       THEN [threads[w] EXCEPT !.got = gpc.text] ELSE threads[w]
              IN  IF w = current_thread
                  THEN IF Running(t) THEN wakeAll([t EXCEPT !.user_input = gpc.text])
                       ELSE t
                  ELSE t]
    /\ lost_wake' = (lost_wake \/ threads[current_thread].pc # "waiting")
    /\ gpc' = Idle
    /\ UNCHANGED <<button, selected_task, current_thread,
                   current_step_num, events, dialogs, aborted, run_finished, saved>>

InitGui ==
    /\ button = [start |-> FALSE, eval |-> FALSE, confirm |-> FALSE,
                 decline |-> FALSE, next |-> TRUE, select |-> TRUE]
    /\ selected_task = "None"
    /\ current_thread = 1
    /\ current_step_num = 1
    /\ threads = [w \in ThreadIds |->
                     IF w = 1 THEN NewThread("ResetRuntimeThread", 0) ELSE NoThread]
    /\ events = <<>> /\ dialogs = <<>> /\ gpc = Idle /\ aborted = FALSE
    /\ run_finished = FALSE /\ saved = FALSE /\ lost_wake = FALSE

-----------------------------------------------------------------------------
(* The paging calls of GoogleCalendarService (gcalendar.py): list_calendars, *)
(* list_events and search_events_by_time_range.  The server holds the       *)
(* result of the query as a finite chain of pages; every page but the last  *)
(* carries the nextPageToken of the page that follows it.                   *)

\* pageToken=None, and a response without "nextPageToken"
NoToken == 0

\* The j-th item of page k
PageItem(k, j) == <<k, j>>

PageOf(k, n, len) ==
    [items |-> [j \in 1..n |-> PageItem(k, j)],
     nextPageToken |-> IF k < len THEN k + 1 ELSE NoToken]

PageChains ==
    UNION {{[k \in 1..len |-> PageOf(k, counts[k], len)] :
               counts \in [1..len -> 0..MaxItems]} : len \in 1..MaxPages}

\* service.<collection>().list(pageToken=token).execute()
Execute(token) == chain[IF token = NoToken THEN 1 ELSE token]

\* The pageToken argument of the request of list_calendars and list_events
PageTokenDropped(token) == NoToken
PageTokenArgument(token) == token

\* The paging methods
PagingMethods == {"list_calendars", "list_events", "search_events_by_time_range"}

InitPages ==
    /\ ppc = "idle" /\ pfn = "none"
    /\ chain \in PageChains
    /\ page_token = NoToken /\ collected = <<>> /\ requested = <<>>

\* No calendar is queried: the server holds one empty page.
NoPaging ==
    /\ ppc = "idle" /\ pfn = "none"
    /\ chain = <<PageOf(1, 0, 1)>>
    /\ page_token = NoToken /\ collected = <<>> /\ requested = <<>>

\* One of the three methods is called: page_token = None and an empty list
paging_call ==
    /\ UNCHANGED NotPages
    /\ ppc = "idle"
    /\ \E fn \in PagingMethods : pfn' = fn
    /\ ppc' = "loop"
    /\ page_token' = NoToken /\ collected' = <<>> /\ requested' = <<>>
    /\ UNCHANGED chain

\* The body of the while loop, for the request made with the argument token
LoopBody(token) ==
    LET result == Execute(token)
    IN  /\ requested' = Append(requested, token)
        /\ collected' = collected \o result.items
        /\ page_token' = result.nextPageToken
        /\ ppc' = IF result.nextPageToken = NoToken THEN "returned" ELSE "loop"
        /\ UNCHANGED <<pfn, chain>>

\* list_calendars: one turn of its while loop
list_calendars ==
    /\ UNCHANGED NotPages
    /\ ppc = "loop" /\ pfn = "list_calendars"
    /\ Len(requested) < MaxRequests
    /\ LoopBody(PageTokenArgument(page_token))

\* list_events: one turn of its while loop
list_events ==
    /\ UNCHANGED NotPages
    /\ ppc = "loop" /\ pfn = "list_events"
    /\ Len(requested) < MaxRequests
    /\ LoopBody(PageTokenArgument(page_token))

\* search_events_by_time_range: one turn of its while loop; the request
\* carries calendarId, timeMin, timeMax and singleEvents, and no pageToken
search_events_by_time_range ==
    /\ UNCHANGED NotPages
    /\ ppc = "loop" /\ pfn = "search_events_by_time_range"
    /\ Len(requested) < MaxRequests
    /\ LoopBody(NoToken)

\* The caller has the list; the service is ready for the next call.
paging_again ==
    /\ UNCHANGED NotPages
    /\ ppc = "returned"
    /\ ppc' = "idle" /\ pfn' = "none"
    /\ page_token' = NoToken /\ collected' = <<>> /\ requested' = <<>>
    /\ UNCHANGED chain

-----------------------------------------------------------------------------
(* FilesystemEvaluator.execute called once on a tree: with one mutating    *)
(* step, and with the entries of a list of checks on a tree and on the     *)
(* tree without one of its files.                                          *)

NoCall == [kind |-> "none"]

\* A check is one entry of an assertion step: the action and the item of its
\* params.
Check(action, e) == [action |-> action, entry |-> e]
CheckInputs == UNION {{Check(a, e) : e \in EntryInputs(a)} : a \in AssertionActions}
CheckLists == UNION {[1..n -> CheckInputs] : n \in 1..MaxChecks}

\* os.remove(path), when nothing refuses it
Deleted(f, path) == [f EXCEPT ![path] = Absent]

\* What the entries of a list of checks multiply score by on the tree f
Contributions(f, checks) ==
    [i \in 1..Len(checks) |-> ApplyEntry(f, checks[i].action, checks[i].entry)]

InitCalls == opc = "idle" /\ oin = NoCall /\ oout = NoCall

\* execute([step]) for one mutating step
execute_step ==
    /\ UNCHANGED NotCalls
    /\ opc = "idle"
    /\ \E step \in MutatingSteps, fail \in BOOLEAN :
          /\ Representable(fs, step)
          /\ LET r == execute(fs, <<step>>, fail)
             IN  /\ oin' = [kind |-> "step", step |-> step, fail |-> fail, tree |-> fs]
                 /\ oout' = [kind |-> "step", score |-> r.score, exc |-> r.exc]
                 /\ fs' = r.fs
    /\ opc' = "returned"

\* The entries of a list of checks, judged on the tree and on the tree
\* without one of its files
execute_checks ==
    /\ UNCHANGED NotCalls
    /\ opc = "idle"
    /\ \E path \in Paths, checks \in CheckLists :
          /\ is_file(fs, path)
          /\ oin' = [kind |-> "checks", checks |-> checks, deleted |-> path]
          /\ oout' = [kind |-> "checks", before |-> Contributions(fs, checks),
                      after |-> Contributions(Deleted(fs, path), checks)]
    /\ opc' = "compared"
    /\ UNCHANGED fs

\* The next call is made on the tree as it is.
execute_next ==
    /\ UNCHANGED NotCalls
    /\ opc \in {"returned", "compared"}
    /\ opc' = "idle" /\ oin' = NoCall /\ oout' = NoCall
    /\ UNCHANGED fs

-----------------------------------------------------------------------------
(* The screen refresh of the two windows: AgentInterface.render            *)
(* (agent_interface.py), a slot that runs to its end in the GUI thread,    *)
(* and Recorder.render (recorder.py), an asyncSlot: every timeout of the   *)
(* refresh timer schedules a coroutine, which runs from one await to the   *)
(* next in the event loop.  The action queue of the Recorder is never      *)
(* filled.                                                                 *)

Blank == 0
Frames == 1..MaxFrame

\* if self.refreshing_screen: the invocation returns without a frame grab.
\* A render without the guard:
NeverSkips(refreshing) == FALSE
Skips(refreshing) == refreshing

\* The window is not there.
NoRender ==
    /\ window = "none" /\ timer_active = FALSE /\ refreshing_screen = FALSE
    /\ ready = 0 /\ grabbing = 0 /\ screen = Blank /\ now_screenshot = Blank
    /\ shown = Blank

\* AgentInterface.__init__ starts the refresh timer; Recorder.__init__ leaves
\* it stopped until connect_vnc is through.
InitRender ==
    /\ window \in {"AgentInterface", "Recorder"}
    /\ timer_active = (window = "AgentInterface")
    /\ refreshing_screen = FALSE
    /\ ready = 0 /\ grabbing = 0
    /\ screen \in Frames /\ now_screenshot = Blank /\ shown = Blank

\* The remote screen changes.
screen_changes ==
    /\ UNCHANGED NotRender
    /\ window # "none"
    /\ \E frame \in Frames \ {screen} : screen' = frame
    /\ UNCHANGED <<window, timer_active, refreshing_screen, ready, grabbing,
                   now_screenshot, shown>>

\* AgentInterface.render, the slot of refresh_timer.timeout, with the
\* update_screen it calls: the frame is shown unless get_current_frame gives
\* None or raises
AgentInterface_render ==
    /\ UNCHANGED NotRender
    /\ window = "AgentInterface" /\ timer_active
    /\ IF Skips(refreshing_screen)
       THEN UNCHANGED <<refreshing_screen, shown>>
       ELSE /\ refreshing_screen' = FALSE
            /\ \E got \in BOOLEAN : shown' = IF got THEN screen ELSE shown
    /\ timer_active' = TRUE
    /\ UNCHANGED <<window, ready, grabbing, screen, now_screenshot>>

\* Recorder: refresh_timer.timeout; the asyncSlot wrapper schedules render()
Recorder_timeout ==
    /\ UNCHANGED NotRender
    /\ window = "Recorder" /\ timer_active
    /\ ready + grabbing < MaxRenders
    /\ ready' = ready + 1
    /\ UNCHANGED <<window, timer_active, refreshing_screen, grabbing, screen,
                   now_screenshot, shown>>

\* Recorder.render from its first statement to its return, or to the await
\* of vnc.screenshot() in update_screen
Recorder_render ==
    /\ UNCHANGED NotRender
    /\ window = "Recorder" /\ ready > 0
    /\ ready' = ready - 1
    /\ IF Skips(refreshing_screen)
       THEN /\ timer_active' = TRUE
            /\ UNCHANGED <<refreshing_screen, grabbing>>
       ELSE /\ timer_active' = FALSE
            /\ refreshing_screen' = TRUE
            /\ grabbing' = grabbing + 1
    /\ UNCHANGED <<window, screen, now_screenshot, shown>>

\* Recorder.update_screen after the await (the screenshot, or an exception
\* that is logged), and the rest of render
Recorder_render_resume ==
    /\ UNCHANGED NotRender
    /\ window = "Recorder" /\ grabbing > 0
    /\ \E got \in BOOLEAN :
          now_screenshot' = IF got THEN screen ELSE now_screenshot
    /\ shown' = now_screenshot'
    /\ grabbing' = grabbing - 1
    /\ refreshing_screen' = FALSE
    /\ timer_active' = TRUE
    /\ UNCHANGED <<window, ready, screen>>

\* Recorder.connect_vnc after its awaits, at construction and after a click
\* on Re-connect: a blank now_screenshot, and refresh_timer.start()
Recorder_connect_vnc ==
    /\ UNCHANGED NotRender
    /\ window = "Recorder"
    /\ now_screenshot' = Blank
    /\ timer_active' = TRUE
    /\ UNCHANGED <<window, refreshing_screen, ready, grabbing, screen, shown>>

-----------------------------------------------------------------------------
(***************************************************************************)
(* FrameBuffer (agent_interface.py): a list of (frame_id, frame) pairs     *)
(* behind a threading.Lock.  Every method takes the lock for its whole     *)
(* body; the threads that call it interleave at the lock.                  *)
(***************************************************************************)

MaxBufThreads == 2
MaxFrameId == 2
MaxAdds == 3

BufThreads == 1..MaxBufThreads
FrameIds == 1..MaxFrameId
Images == {"p"}

\* end_frame_id=None
NoEnd == 0

NoBufCall == [op |-> "none", pc |-> "idle", frame_id |-> 0, frame |-> "",
              start_frame_id |-> 0, end_frame_id |-> NoEnd, frames |-> <<>>]

\* self.queue.insert(0, (frame_id, frame))
PrependFrame(q, frame_id, frame) == <<<<frame_id, frame>>>> \o q

\* self.queue.append((frame_id, frame))
AppendFrame(q, frame_id, frame) == Append(q, <<frame_id, frame>>)

\* the for loop of get_frames from position i on, with frames collected so far
RECURSIVE ScanFrames(_, _, _, _, _)
ScanFrames(q, i, start_frame_id, end_frame_id, frames) ==
    IF i > Len(q) THEN frames
    ELSE IF q[i][1] >= start_frame_id
         THEN IF end_frame_id # NoEnd /\ q[i][1] > end_frame_id
              THEN frames
              ELSE ScanFrames(q, i + 1, start_frame_id, end_frame_id,
                              Append(frames, q[i]))
         ELSE ScanFrames(q, i + 1, start_frame_id, end_frame_id, frames)

\* FrameBuffer.__init__, no thread inside a method
InitBuffer ==
    /\ queue = <<>>
    /\ lock = 0
    /\ calls = [t \in BufThreads |-> NoBufCall]
    /\ added = <<>>
    /\ cleared = 0

NoBuffer == InitBuffer

\* a thread calls a method of the buffer and enters its with self.lock block;
\* until then the call has changed nothing
FrameBuffer_acquire(t) ==
    /\ calls[t].pc = "idle"
    /\ lock = 0
    /\ lock' = t
    /\ \/ /\ Len(added) < MaxAdds
          /\ \E frame_id \in FrameIds, frame \in Images :
                calls' = [calls EXCEPT ![t] = [NoBufCall EXCEPT !.op = "add_frame",
                              !.pc = "locked", !.frame_id = frame_id, !.frame = frame]]
       \/ calls' = [calls EXCEPT ![t] = [NoBufCall EXCEPT !.op = "clear", !.pc = "locked"]]
       \/ \E start_frame_id \in FrameIds, end_frame_id \in FrameIds \cup {NoEnd} :
             calls' = [calls EXCEPT ![t] = [NoBufCall EXCEPT !.op = "get_frames",
                           !.pc = "locked", !.start_frame_id = start_frame_id,
                           !.end_frame_id = end_frame_id]]
    /\ UNCHANGED <<queue, added, cleared>>
    /\ UNCHANGED NotBuffer

\* the body of add_frame
FrameBuffer_add_frame(t) ==
    /\ calls[t].pc = "locked" /\ calls[t].op = "add_frame"
    /\ queue' = AppendFrame(queue, calls[t].frame_id, calls[t].frame)
    /\ added' = Append(added, <<calls[t].frame_id, calls[t].frame>>)
    /\ calls' = [calls EXCEPT ![t].pc = "release"]
    /\ UNCHANGED <<lock, cleared>>
    /\ UNCHANGED NotBuffer

\* the body of clear
FrameBuffer_clear(t) ==
    /\ calls[t].pc = "locked" /\ calls[t].op = "clear"
    /\ queue' = <<>>
    /\ cleared' = Len(added)
    /\ calls' = [calls EXCEPT ![t].pc = "release"]
    /\ UNCHANGED <<lock, added>>
    /\ UNCHANGED NotBuffer

\* the body of get_frames
FrameBuffer_get_frames(t) ==
    /\ calls[t].pc = "locked" /\ calls[t].op = "get_frames"
    /\ calls' = [calls EXCEPT ![t].pc = "release",
                              ![t].frames = ScanFrames(queue, 1, calls[t].start_frame_id,
                                                       calls[t].end_frame_id, <<>>)]
    /\ UNCHANGED <<queue, lock, added, cleared>>
    /\ UNCHANGED NotBuffer

\* with self.lock: __exit__, and the return of the method to its caller
FrameBuffer_release(t) ==
    /\ calls[t].pc = "release"
    /\ lock = t
    /\ lock' = 0
    /\ calls' = [calls EXCEPT ![t] = NoBufCall]
    /\ UNCHANGED <<queue, added, cleared>>
    /\ UNCHANGED NotBuffer

-----------------------------------------------------------------------------
(***************************************************************************)
(* OpenAIProvider.generate_response (openai.py).  The inner function makes *)
(* one chat.completions.create call; backoff.on_exception(backoff.constant,*)
(* (APIError, RateLimitError, APITimeoutError), max_tries=max_retries)     *)
(* calls it again after one of the listed exceptions until the number of   *)
(* tries equals max_tries, and lets every other exception through.         *)
(***************************************************************************)

\* Config.max_retries
max_retries == 3

\* the exceptions listed in the decorator
Listed == {"APIError", "RateLimitError", "APITimeoutError"}

Responses == {"r1", "r2", "r3"}

\* What one call of chat.completions.create can do: return a response,
\* return None, raise a listed exception, raise another one.
CreateOutcomes ==
    [kind : {"response"}, value : Responses]
    \cup [kind : {"None"} \cup Listed \cup {"ValueError"}, value : {"none"}]

\* What the inner function does with the outcome of create: a response gives
\* (message, info); None has no attribute choices; an exception passes.
Inner(o) ==
    CASE o.kind = "response" -> [kind |-> "return", value |-> o.value]
      [] o.kind = "None" -> [kind |-> "raise", value |-> "AttributeError"]
      [] OTHER -> [kind |-> "raise", value |-> o.kind]

\* backoff gives up one try late
MaxTriesExceededLate(n) == n = max_retries + 1

\* max_tries_exceeded = (tries == max_tries_value)
MaxTriesExceeded(n) == n = max_retries

NoLlm ==
    /\ lpc = "idle"
    /\ tries = 0
    /\ attempts = <<>>
    /\ lresult = [kind |-> "none", value |-> "none"]

\* generate_response is called: model, temperature and max_tokens are read
\* from kwargs and config, which raises AttributeError when config has no
\* such attribute, and the decorated function is called
generate_response_call ==
    /\ lpc = "idle"
    /\ \/ lpc' = "try" /\ lresult' = lresult
       \/ lpc' = "raised" /\ lresult' = [kind |-> "raise", value |-> "AttributeError"]
    /\ UNCHANGED <<tries, attempts>>
    /\ UNCHANGED NotLlm

\* one pass of the retry loop: tries += 1, the call, and what follows it
generate_response_try ==
    /\ lpc = "try"
    /\ \E o \in CreateOutcomes :
          LET r == Inner(o) IN
          /\ tries' = tries + 1
          /\ attempts' = Append(attempts, o)
          /\ IF r.kind = "return"
             THEN lpc' = "returned" /\ lresult' = r
             ELSE IF r.value \in Listed /\ ~MaxTriesExceeded(tries + 1)
                  THEN lpc' = "sleep" /\ lresult' = lresult
                  ELSE lpc' = "raised" /\ lresult' = r
    /\ UNCHANGED NotLlm

\* time.sleep(interval) has passed
generate_response_sleep ==
    /\ lpc = "sleep"
    /\ lpc' = "try"
    /\ UNCHANGED <<tries, attempts, lresult>>
    /\ UNCHANGED NotLlm

\* the next request
generate_response_again ==
    /\ lpc \in {"returned", "raised"}
    /\ lpc' = "idle"
    /\ tries' = 0
    /\ attempts' = <<>>
    /\ lresult' = [kind |-> "none", value |-> "none"]
    /\ UNCHANGED NotLlm

-----------------------------------------------------------------------------
(***************************************************************************)
(* extract_email and message_match (gmail_evaluator.py).  A string is the  *)
(* sequence of its characters.  msg_to_match is a dict as get_message      *)
(* builds it: subject, recipient and body are strings, attachment and cc   *)
(* are strings or None.  ref_msg declares any of the five keys.            *)
(***************************************************************************)

MaxAddrLen == 4
MaxTextLen == 2

\* "a" is matched by [\w\.-], "@" and " " are not
AddrChars == {"a", "@", " "}
TextChars == {"a", " "}

StringsOver(chars, n) == UNION {[1..k -> chars] : k \in 0..n}

AddrStrings == StringsOver(AddrChars, MaxAddrLen)
Texts == StringsOver(TextChars, MaxTextLen)

\* None, and the mark of a key that the dict does not hold
None == <<"None">>
Undeclared == <<"<undeclared>">>

\* [\w\.-]
InClass(c) == c = "a"

\* the end of the longest run of [\w\.-] that starts at i
RECURSIVE RunEnd(_, _)
RunEnd(s, i) ==
    IF i < Len(s) /\ InClass(s[i + 1]) THEN RunEnd(s, i + 1) ELSE i

\* the pattern [\w\.-]+@[\w\.-]+ matches at i: greedy, and since "@" is
\* outside the class no shorter first run can match
MatchesAt(s, i) ==
    /\ InClass(s[i])
    /\ RunEnd(s, i) + 2 <= Len(s)
    /\ s[RunEnd(s, i) + 1] = "@"
    /\ InClass(s[RunEnd(s, i) + 2])

MatchAt(s, i) == SubSeq(s, i, RunEnd(s, RunEnd(s, i) + 2))

\* re.findall scans from the left; emails[0] if emails else None
RECURSIVE extract_email_from(_, _)
extract_email_from(s, i) ==
    IF i > Len(s) THEN None
    ELSE IF MatchesAt(s, i) THEN MatchAt(s, i)
         ELSE extract_email_from(s, i + 1)

extract_email(s) == extract_email_from(s, 1)

\* str.strip()
RECURSIVE strip(_)
strip(s) ==
    IF s = <<>> THEN s
    ELSE IF s[1] = " " THEN strip(Tail(s))
    ELSE IF s[Len(s)] = " " THEN strip(SubSeq(s, 1, Len(s) - 1))
    ELSE s

\* msg_to_match["body"].strip() == ref_msg["body"].strip()
body_match(m, r) == strip(m) = strip(r)

\* msg_to_match["recipient"] == ref_msg["recipient"]
recipient_match_raw(m, r) == m = r

\* extract_email(msg_to_match["recipient"]) == extract_email(ref_msg["recipient"])
recipient_match(m, r) == extract_email(m) = extract_email(r)

\* the keys in the order message_match visits them
MailKeys == <<"recipient", "body", "subject", "attachment", "cc">>

\* the values msg_to_match and ref_msg can hold under a key
MsgValues(key) ==
    CASE key = "recipient" -> AddrStrings
      [] key \in {"attachment", "cc"} -> Texts \cup {None}
      [] OTHER -> Texts

RefValues(key) ==
    CASE key = "recipient" -> AddrStrings \cup {Undeclared}
      [] key = "body" -> Texts \cup {Undeclared}
      [] OTHER -> Texts \cup {None, Undeclared}

\* result after the statement of message_match for this key
MatchStep(result, key, m, r) ==
    CASE key = "recipient" ->
            IF r # Undeclared THEN result /\ recipient_match(m, r) ELSE result
      [] key = "body" ->
            IF r # Undeclared THEN result /\ body_match(m, r) ELSE result
      [] OTHER ->
            IF r # Undeclared /\ r # None THEN result /\ (m = r) ELSE result

\* The first address in s, said without scanning: the substring run@run
\* that no character of the class extends, with the least start.
AddressSpans(s) ==
    {sp \in (1..Len(s)) \X (1..Len(s)) :
        /\ sp[1] < sp[2]
        /\ \E at \in (sp[1] + 1)..(sp[2] - 1) :
              /\ s[at] = "@"
              /\ \A k \in sp[1]..sp[2] : k # at => InClass(s[k])
        /\ sp[1] = 1 \/ ~InClass(s[sp[1] - 1])
        /\ sp[2] = Len(s) \/ ~InClass(s[sp[2] + 1])}

FirstAddress(s) ==
    IF AddressSpans(s) = {} THEN None
    ELSE LET sp == CHOOSE a \in AddressSpans(s) : \A b \in AddressSpans(s) : a[1] <= b[1]
         IN SubSeq(s, sp[1], sp[2])

\* s without the blanks at its ends
Trimmed(s) ==
    IF \A i \in 1..Len(s) : s[i] = " " THEN <<>>
    ELSE LET first == CHOOSE i \in 1..Len(s) : s[i] # " " /\ \A k \in 1..(i - 1) : s[k] = " "
             last == CHOOSE i \in 1..Len(s) : s[i] # " " /\ \A k \in (i + 1)..Len(s) : s[k] = " "
         IN SubSeq(s, first, last)

\* the field that ref declares under key matches the one of msg
DeclaredFieldMatches(key, m, r) ==
    CASE key = "recipient" -> r # Undeclared => FirstAddress(m) = FirstAddress(r)
      [] key = "body" -> r # Undeclared => Trimmed(m) = Trimmed(r)
      [] OTHER -> (r # Undeclared /\ r # None) => m = r

NoMail ==
    /\ wpc = "idle"
    /\ wkey = 0
    /\ wmsg = None
    /\ wref = Undeclared
    /\ wresult = TRUE
    /\ wallmatch = TRUE
    /\ wdeclared = 0

\* message_match(msg_to_match, ref_msg) is called: result = True
message_match_call ==
    /\ wpc = "idle"
    /\ wpc' = "read"
    /\ wkey' = 1
    /\ wresult' = TRUE
    /\ wallmatch' = TRUE
    /\ wdeclared' = 0
    /\ UNCHANGED <<wmsg, wref>>
    /\ UNCHANGED NotMail

\* what the two dicts hold under the key that is compared next
message_match_read ==
    /\ wpc = "read"
    /\ wmsg' \in MsgValues(MailKeys[wkey])
    /\ wref' \in RefValues(MailKeys[wkey])
    /\ wpc' = "keys"
    /\ UNCHANGED <<wkey, wresult, wallmatch, wdeclared>>
    /\ UNCHANGED NotMail

\* the statement for one key
message_match_key ==
    /\ wpc = "keys"
    /\ wresult' = MatchStep(wresult, MailKeys[wkey], wmsg, wref)
    /\ wallmatch' = (wallmatch /\ DeclaredFieldMatches(MailKeys[wkey], wmsg, wref))
    /\ wdeclared' = IF wref \in {Undeclared, None} THEN wdeclared ELSE wdeclared + 1
    /\ wmsg' = None /\ wref' = Undeclared
    /\ IF wkey < Len(MailKeys)
       THEN wkey' = wkey + 1 /\ wpc' = "read"
       ELSE wkey' = wkey /\ wpc' = "returned"
    /\ UNCHANGED NotMail

\* the next pair of messages
message_match_again ==
    /\ wpc = "returned"
    /\ wpc' = "idle"
    /\ wkey' = 0 /\ wmsg' = None /\ wref' = Undeclared
    /\ wresult' = TRUE /\ wallmatch' = TRUE /\ wdeclared' = 0
    /\ UNCHANGED NotMail

-----------------------------------------------------------------------------
(***************************************************************************)
(* read_unfinished_tasks and load_results (json_utils.py).  A task config  *)
(* is its task_id.  results_dir is the list of its entries in the order    *)
(* iterdir gives them; an entry is what it holds as result.jsonl.          *)
(***************************************************************************)

MaxConfigs == 3
MaxDirs == 2

\* What an entry of results_dir can hold: no result.jsonl, an empty one, one
\* that is not JSON, one record, or the records of two exports.
ResultDirs ==
    {[exists |-> FALSE, content |-> <<>>],
     [exists |-> TRUE, content |-> <<>>],
     [exists |-> TRUE, content |-> <<"{", Newline>>]}
    \cup {[exists |-> TRUE, content |-> add_jsonl(TaskResult(id, 1, <<>>), <<>>)] :
             id \in TaskIds}
    \cup {[exists |-> TRUE,
           content |-> add_jsonl(TaskResult(<<"b">>, 0, <<>>),
                                 add_jsonl(TaskResult(<<"a">>, 1, <<>>), <<>>))]}

ConfigLists == UNION {[1..n -> TaskIds] : n \in 0..MaxConfigs}
DirLists == UNION {[1..n -> ResultDirs] : n \in 0..MaxDirs}

\* if task_config.task_id in finished_task_ids
IsFinished(task_id, finished_task_ids) ==
    \E i \in 1..Len(finished_task_ids) : finished_task_ids[i] = task_id

\* if task_config.task_id not in finished_task_ids
IsUnfinished(task_id, finished_task_ids) ==
    \A i \in 1..Len(finished_task_ids) : finished_task_ids[i] # task_id

\* the loop over task_configs from position i on
RECURSIVE UnfinishedFrom(_, _, _, _)
UnfinishedFrom(task_configs, i, finished_task_ids, unfinished_tasks) ==
    IF i > Len(task_configs) THEN unfinished_tasks
    ELSE UnfinishedFrom(task_configs, i + 1, finished_task_ids,
                        IF IsUnfinished(task_configs[i], finished_task_ids)
                        THEN Append(unfinished_tasks, task_configs[i])
                        ELSE unfinished_tasks)

NoUnfinished ==
    /\ upc = "idle"
    /\ uconfigs = <<>>
    /\ udirs = <<>>
    /\ uidx = 0
    /\ uresults = <<>>
    /\ uskipped = 0
    /\ unfinished = <<>>

\* read_unfinished_tasks is called: the task configs are read, and
\* load_results starts to iterate results_dir, which raises when there is
\* no such directory
read_unfinished_tasks_call ==
    /\ upc = "idle"
    /\ \E task_configs \in ConfigLists :
          /\ uconfigs' = task_configs
          /\ \/ upc' = "raised" /\ udirs' = <<>>
             \/ upc' = "results" /\ udirs' \in DirLists
    /\ UNCHANGED <<uidx, uresults, uskipped, unfinished>>
    /\ UNCHANGED NotUnfinished

\* one pass of the loop of load_results: try load_result(dir), except Exception
load_results_dir ==
    /\ upc = "results" /\ uidx < Len(udirs)
    /\ LET dir == udirs[uidx + 1]
           r == load_result(dir.exists, dir.content)
       IN  IF r.exc = "none"
           THEN uresults' = Append(uresults, r.result) /\ uskipped' = uskipped
           ELSE uresults' = uresults /\ uskipped' = uskipped + 1
    /\ uidx' = uidx + 1
    /\ UNCHANGED <<upc, uconfigs, udirs, unfinished>>
    /\ UNCHANGED NotUnfinished

\* load_results returns; the task ids are collected, the task configs are
\* filtered and read_unfinished_tasks returns
read_unfinished_tasks_return ==
    /\ upc = "results" /\ uidx = Len(udirs)
    /\ LET finished_task_ids == [i \in 1..Len(uresults) |-> uresults[i].task_id]
       IN  unfinished' = UnfinishedFrom(uconfigs, 1, finished_task_ids, <<>>)
    /\ upc' = "returned"
    /\ UNCHANGED <<uconfigs, udirs, uidx, uresults, uskipped>>
    /\ UNCHANGED NotUnfinished

\* the next call
read_unfinished_tasks_again ==
    /\ upc \in {"returned", "raised"}
    /\ upc' = "idle"
    /\ uconfigs' = <<>> /\ udirs' = <<>> /\ uidx' = 0 /\ uresults' = <<>>
    /\ uskipped' = 0 /\ unfinished' = <<>>
    /\ UNCHANGED NotUnfinished

\* The parts above start in their constructed state in every other
\* specification.
NoRest == NoBuffer /\ NoLlm /\ NoMail /\ NoUnfinished

-----------------------------------------------------------------------------
(* The specifications *)

UtcZone == [std |-> 0, dst |-> 0]

Init == fs \in TestTrees /\ InitExecute /\ InitEval /\ localZone = UtcZone /\ InitMatch /\ InitJson
    /\ InitGui /\ NoPaging /\ InitCalls /\ NoRender /\ NoRest

Next ==
    \/ eval_tasks_call
    \/ eval_tasks_route
    \/ EvaluatorComb_call_evaluator
    \/ EvaluatorComb_return
    \/ eval_tasks_accumulate
    \/ eval_tasks_return
    \/ eval_tasks_again

\* eval_tasks over tasks whose evaluators run execute as one call
Spec == Init /\ [][Next]_vars

InitFs ==
    fs \in Trees /\ InitExecute /\ InitEval /\ localZone = UtcZone /\ InitMatch /\ InitJson
    /\ InitGui /\ NoPaging /\ InitCalls /\ NoRender /\ NoRest

NextFs ==
    \/ execute_call
    \/ execute_mutate
    \/ execute_unknown
    \/ execute_assert
    \/ execute_entry
    \/ execute_return
    \/ execute_again

\* FilesystemEvaluator.execute alone, one step at a time
SpecFs == InitFs /\ [][NextFs]_vars


EmptyTree == [p \in Paths |-> Absent]

InitCal ==
    fs = EmptyTree /\ InitExecute /\ InitEval /\ localZone \in LocalZones /\ InitMatch
    /\ InitJson /\ InitGui /\ NoPaging /\ InitCalls /\ NoRender /\ NoRest

NextCal ==
    \/ event_match_left_call
    \/ event_match_left_item
    \/ event_match_left_return
    \/ event_match_left_again

\* GoogleCalendarService.event_match_left on every pair of events
SpecCal == InitCal /\ [][NextCal]_vars

InitJsonl ==
    fs = EmptyTree /\ InitExecute /\ InitEval /\ localZone = UtcZone /\ InitMatch
    /\ InitJson /\ InitGui /\ NoPaging /\ InitCalls /\ NoRender /\ NoRest

NextJson ==
    \/ export_trajectory_call
    \/ load_result_call
    \/ result_dir_again

\* export_trajectory and load_result on one result directory
SpecJson == InitJsonl /\ [][NextJson]_vars

InitGuiApp ==
    fs = EmptyTree /\ InitExecute /\ InitEval /\ localZone = UtcZone /\ InitMatch
    /\ InitJson /\ InitGui /\ NoPaging /\ InitCalls /\ NoRender /\ NoRest

NextGui ==
    \/ AgentInterface_reset
    \/ select_task_instruction
    \/ run_task
    \/ eval_task
    \/ step_action
    \/ reject_action
    \/ setEnabled
    \/ finish_run_task_slot
    \/ save_trajectory
    \/ save_trajectory_get
    \/ show_input_dialog
    \/ show_input_dialog_accepted
    \/ show_input_dialog_rejected
    \/ receive_user_input
    \/ qFatal
    \/ \E w \in ThreadIds :
          \/ ResetRuntimeThread_run(w)
          \/ Thread_submit(w)
          \/ WaitFinish_poll(w)
          \/ WaitFinish_lock_emit(w)
          \/ WaitFinish_wait(w)
          \/ WaitFinish_confirm(w)
          \/ RunTaskThread_generate(w)
          \/ Thread_emit_decline(w)
          \/ EvalTaskThread_result(w)
          \/ StepActionThread_run(w)

\* The AgentInterface window, its worker threads and the user
SpecGui == InitGuiApp /\ [][NextGui]_vars

\* No worker is running and no signal of one is waiting for its slot.
Quiet == RunningThreads = {} /\ events = <<>>

\* GET /task/status answers "finished"
WaitFinish_finished(w) == WaitFinish_poll(w) /\ threads'[w].pc = "result"

\* The window with a user who clicks only when the window is quiet and who
\* answers every input dialog.
InitFsCall ==
    fs \in Trees /\ InitExecute /\ InitEval /\ localZone = UtcZone /\ InitMatch /\ InitJson
    /\ InitGui /\ NoPaging /\ InitCalls /\ NoRender /\ NoRest

NextFsCall ==
    \/ execute_step
    \/ execute_checks
    \/ execute_next

\* FilesystemEvaluator.execute, one call at a time
SpecFsCall == InitFsCall /\ [][NextFsCall]_vars

InitRefresh ==
    fs = EmptyTree /\ InitExecute /\ InitEval /\ localZone = UtcZone /\ InitMatch
    /\ InitJson /\ InitGui /\ NoPaging /\ InitCalls /\ InitRender /\ NoRest

NextRefresh ==
    \/ screen_changes
    \/ AgentInterface_render
    \/ Recorder_timeout
    \/ Recorder_render
    \/ Recorder_render_resume
    \/ Recorder_connect_vnc

\* The refresh timer and the renders of a window
SpecRefresh == InitRefresh /\ [][NextRefresh]_vars

InitPaging ==
    fs = EmptyTree /\ InitExecute /\ InitEval /\ localZone = UtcZone /\ InitMatch
    /\ InitJson /\ InitGui /\ InitPages /\ InitCalls /\ NoRender /\ NoRest

NextPaging ==
    \/ paging_call
    \/ list_calendars
    \/ list_events
    \/ search_events_by_time_range
    \/ paging_again

\* The paging calls of GoogleCalendarService against one listing
SpecPaging == InitPaging /\ [][NextPaging]_vars

InitBase ==
    fs = EmptyTree /\ InitExecute /\ InitEval /\ localZone = UtcZone /\ InitMatch
    /\ InitJson /\ InitGui /\ NoPaging /\ InitCalls /\ NoRender

InitFrames == InitBase /\ InitBuffer /\ NoLlm /\ NoMail /\ NoUnfinished

NextFrames ==
    \E t \in BufThreads :
        \/ FrameBuffer_acquire(t)
        \/ FrameBuffer_add_frame(t)
        \/ FrameBuffer_clear(t)
        \/ FrameBuffer_get_frames(t)
        \/ FrameBuffer_release(t)

\* The threads that share one FrameBuffer
SpecFrames == InitFrames /\ [][NextFrames]_vars

InitProvider == InitBase /\ NoRest

NextProvider ==
    \/ generate_response_call
    \/ generate_response_try
    \/ generate_response_sleep
    \/ generate_response_again

\* The requests of one OpenAIProvider, one at a time
SpecProvider == InitProvider /\ [][NextProvider]_vars

InitMail == InitBase /\ NoRest

NextMail ==
    \/ message_match_call
    \/ message_match_read
    \/ message_match_key
    \/ message_match_again

\* message_match on every pair of a message and a reference
SpecMail == InitMail /\ [][NextMail]_vars

InitUnfinished == InitBase /\ NoRest

NextUnfinished ==
    \/ read_unfinished_tasks_call
    \/ load_results_dir
    \/ read_unfinished_tasks_return
    \/ read_unfinished_tasks_again

\* read_unfinished_tasks on every list of task configs and results_dir
SpecUnfinished == InitUnfinished /\ [][NextUnfinished]_vars

NextWaitFinish ==
    \/ Quiet /\ AgentInterface_reset
    \/ Quiet /\ select_task_instruction
    \/ Quiet /\ run_task
    \/ Quiet /\ eval_task
    \/ Quiet /\ step_action
    \/ Quiet /\ reject_action
    \/ setEnabled
    \/ finish_run_task_slot
    \/ save_trajectory
    \/ show_input_dialog
    \/ show_input_dialog_accepted
    \/ receive_user_input
    \/ qFatal
    \/ \E w \in ThreadIds :
          \/ ResetRuntimeThread_run(w)
          \/ Thread_submit(w)
          \/ WaitFinish_poll(w)
          \/ WaitFinish_lock_emit(w)
          \/ WaitFinish_wait(w)
          \/ WaitFinish_confirm(w)
          \/ RunTaskThread_generate(w)
          \/ Thread_emit_decline(w)
          \/ EvalTaskThread_result(w)
          \/ StepActionThread_run(w)

\* The worker threads and the GUI event loop keep running, the user answers a
\* dialog that is open, and the server reports "finished" at some poll when
\* it is polled again and again.
FairWaitFinish ==
    /\ \A w \in ThreadIds :
          /\ WF_vars(WaitFinish_poll(w))
          /\ SF_vars(WaitFinish_finished(w))
          /\ WF_vars(WaitFinish_lock_emit(w))
          /\ WF_vars(WaitFinish_wait(w))
          /\ WF_vars(WaitFinish_confirm(w))
    /\ WF_vars(show_input_dialog)
    /\ WF_vars(show_input_dialog_accepted)
    /\ WF_vars(receive_user_input)

SpecWaitFinish == InitGuiApp /\ [][NextWaitFinish]_vars /\ FairWaitFinish

-----------------------------------------------------------------------------
(* Properties of EvaluatorComb, evaluator_router and eval_tasks (Spec) *)

RECURSIVE Product(_)
Product(seq) == IF seq = <<>> THEN 1 ELSE Head(seq) * Product(Tail(seq))

RECURSIVE WeightedSum(_, _)
WeightedSum(scores, ws) ==
    IF scores = <<>> THEN 0
    ELSE Head(scores) * Head(ws) + WeightedSum(Tail(scores), Tail(ws))

RECURSIVE Sum(_)
Sum(seq) == IF seq = <<>> THEN 0 ELSE Head(seq) + Sum(Tail(seq))

HasUnknownType(task_config) ==
    \E i \in 1..Len(task_config.evals) :
        task_config.evals[i].eval_type \notin {"google_calendar", "filesystem"}

\* C1: the value EvaluatorComb returns is the product, from 1.0, of the
\* scores its evaluators returned: 1.0 for no evaluator or when all scored
\* 1.0, 0.0 as soon as one scored 0.0.
C1_CombIsProduct ==
    /\ epc = "comb" => cscore = Product(cscores)
    /\ epc = "scored" =>
          /\ \A i \in 1..Len(cscores) : cscores[i] \in {0, 1}
          /\ task_score = Product(cscores)
          /\ task_score = 1 <=> (\A i \in 1..Len(cscores) : cscores[i] = 1)
          /\ task_score = 0 <=> (\E i \in 1..Len(cscores) : cscores[i] = 0)
          /\ cscores = <<1, 1>> => task_score = 1
          /\ cscores = <<1, 0>> => task_score = 0

C1_Witness ==
    epc = "scored" /\ cscores = <<0, 1>> /\ task_score = 0

\* C2: one call of EvaluatorComb invokes each evaluator of its list once, in
\* list order, also after an evaluator returned 0.0.
C2_EveryEvaluatorInvokedInOrder ==
    /\ epc \in {"comb", "scored"} =>
          /\ Len(invoked) <= Len(evaluators)
          /\ \A i \in 1..Len(invoked) : invoked[i] = i
          /\ Len(cscores) = Len(invoked)
    /\ epc = "scored" => Len(invoked) = Len(evaluators)

C2_Witness ==
    /\ epc = "scored" /\ Len(evaluators) = 2
    /\ cscores[1] = 0 /\ invoked = <<1, 2>>

\* C3: the score of a task is 1.0 exactly when every criterion of every one
\* of its evaluators passed and none of them raised; otherwise it is 0.0.
C3_TaskScoreIffAllPass ==
    epc = "scored" =>
        /\ task_score \in {0, 1}
        /\ task_score = 1 <=> (tfailed = 0 /\ traised = 0)

C3_Witness ==
    /\ epc = "scored" /\ Len(evaluators) = 2 /\ task_score = 0
    /\ tfailed = 1 /\ traised = 0 /\ cscores = <<0, 1>>
    /\ evaluators[1].class = "FilesystemEvaluator"

\* C6: a task with an unsupported eval_type at any position makes
\* evaluator_router raise ValueError: no comb is returned and no evaluator of
\* that task is invoked.
C6_UnknownTypeRaises ==
    HasUnknownType(task) =>
        /\ epc = "raised" /\ eexc = "ValueError"
        /\ evaluators = <<>> /\ invoked = <<>> /\ cscores = <<>> /\ task_score = -1

C6_Witness ==
    /\ epc = "raised" /\ eexc = "ValueError" /\ Len(task.evals) = 2
    /\ task.evals[1].eval_type = "filesystem"
    /\ task.evals[2].eval_type = "string_match"

\* C7: for a task whose eval types are all supported the comb holds one
\* evaluator per declared step, in declaration order, of the class of the
\* step's eval_type, with the step's reference answer, the bridge registered
\* under the eval_type and the task's reset_actions ([] when none is declared).
C7_RouterBuildsOneEvaluatorPerStep ==
    /\ (epc = "raised" /\ eexc = "ValueError") => HasUnknownType(task)
    /\ epc \in {"comb", "scored"} =>
          /\ ~HasUnknownType(task)
          /\ Len(evaluators) = Len(task.evals)
          /\ \A i \in 1..Len(evaluators) :
                /\ task.evals[i].eval_type = "google_calendar"
                      => /\ evaluators[i].class = "GoogleCalendarEvaluator"
                         /\ evaluators[i].env = Bridges.google_calendar
                /\ task.evals[i].eval_type = "filesystem"
                      => /\ evaluators[i].class = "FilesystemEvaluator"
                         /\ evaluators[i].env = Bridges.filesystem
                /\ evaluators[i].reference_answer = task.evals[i].reference_answers
                /\ evaluators[i].reset_actions =
                      (IF task.has_reset_actions THEN task.reset_actions ELSE <<>>)

C7_Witness ==
    /\ epc = "comb" /\ Len(evaluators) = 2
    /\ evaluators[1].class = "GoogleCalendarEvaluator"
    /\ evaluators[2].class = "FilesystemEvaluator"
    /\ evaluators[2].reference_answer = "file_exists"
    /\ ~task.has_reset_actions /\ evaluators[1].reset_actions = <<>>

\* C8: eval_tasks returns (sum of task_score_i * weight_i) / (sum of weight_i)
\* * score_weight; with weights 1 and 2 and score_weight 1 that is 1.0 when
\* both tasks pass, 2/3 when only the second passes and 0.0 when none does.
C8_EvalTasksWeightedMean ==
    epc = "returned" =>
        /\ Sum(weights) # 0 /\ eresult.den # 0
        /\ Len(taskScores) = ntasks /\ Len(weights) = ntasks
        /\ eresult.num * Sum(weights) =
               WeightedSum(taskScores, weights) * score_weight * eresult.den
        /\ (weights = <<1, 2>> /\ score_weight = 1) =>
              /\ taskScores = <<1, 1>> => eresult.num = eresult.den
              /\ taskScores = <<0, 1>> => 3 * eresult.num = 2 * eresult.den
              /\ taskScores = <<0, 0>> => eresult.num = 0

C8_Witness ==
    /\ epc = "returned" /\ weights = <<1, 2>> /\ score_weight = 1
    /\ taskScores = <<0, 1>> /\ 3 * eresult.num = 2 * eresult.den

-----------------------------------------------------------------------------
(* Properties of FilesystemEvaluator.execute (SpecFs) *)

\* The product of 1.0 per passing and 0.0 per failing entry.
ProductOfVerdicts(v) == IF v[2] > 0 THEN 0 ELSE 1

\* C4: when no step raises, execute returns the product over the assertion
\* entries of 1.0 for a passing and 0.0 for a failing one, each judged against
\* the tree the steps before it left; the score is 0.0 or 1.0.
C4_ScoreIsProductOfChecks ==
    /\ xpc \in {"loop", "entries"} => xscore = ProductOfVerdicts(xverdicts)
    /\ (xpc = "returned" /\ xexc = "none") =>
          /\ xresult = ProductOfVerdicts(xverdicts)
          /\ xresult \in {0, 1}
          /\ xdone = xn

C4_Witness ==
    /\ xpc = "returned" /\ xexc = "none" /\ xverdicts = <<2, 1>> /\ xresult = 0

\* C5: when a step raises, execute returns 0.0 whatever the checks before it
\* gave, and no step after the raising one is run.
C5_RaiseGivesZeroAndStops ==
    /\ xexc # "none" => xpc = "returned"
    /\ (xpc = "returned" /\ xexc # "none") =>
          /\ xresult = 0
          /\ xraisedAt = xidx /\ xdone = xraisedAt - 1

C5_Witness ==
    /\ xpc = "returned" /\ xexc = "KeyError" /\ xresult = 0
    /\ xverdicts = <<1, 0>> /\ xraisedAt = 2 /\ xn = 3


-----------------------------------------------------------------------------
(* Properties of GoogleCalendarService.event_match_left (SpecCal) *)

\* C9: event_match_left returns true exactly when every key ref declares
\* agrees with pred: summary, description and location equal as strings,
\* start and end dateTimes the same instant whatever offsets they are written
\* in; keys that only pred holds play no part.
C9_MatchIffDeclaredKeysAgree ==
    mpc = "returned" =>
        /\ mresult = "True" <=> (Len(mref) = mn /\ mallmatch)
        /\ mresult # "True" => ~ItemAgrees(mref[Len(mref)], pred)
        /\ mallmatch <=> (\A i \in 1..Len(mref) : ItemAgrees(mref[i], pred))

C9_Witness ==
    /\ mpc = "returned" /\ mresult = "True" /\ mn = 2
    /\ mref[1] = Item("start", NoKey, DateTime(10, 0))
    /\ pred["start"].time = DateTime(5, -5)
    /\ mref[2].key = "summary"
    /\ pred["location"] # NoValue /\ pred["id"] # NoValue


-----------------------------------------------------------------------------
(* Properties of export_trajectory and load_result (SpecJson) *)

\* C10: whatever the result directory holds, load_result right after
\* export_trajectory yields the task_id, score and feedback just exported.
C10_RoundTrip ==
    (jpc = "loaded" /\ exported # NoRecord) =>
        /\ loaded.exc = "none"
        /\ loaded.result.task_id = exported.task_id
        /\ loaded.result.score = exported.score
        /\ loaded.result.feedback = exported.feedback

\* On a directory that held no result.jsonl the round trip holds.
RoundTripOnFreshDir ==
    (jpc = "loaded" /\ exported # NoRecord
        /\ Len(FileLines(result_jsonl, <<>>, <<>>)) = 1) =>
        loaded = [exc |-> "none", result |-> exported]

\* load_result never fails on what add_jsonl wrote, and yields the first line.
LoadYieldsFirstLine ==
    (jpc = "loaded" /\ jexists) =>
        /\ loaded.exc = "none"
        /\ json_dumps(loaded.result) \o <<Newline>>
              = SubSeq(result_jsonl, 1, Len(json_dumps(loaded.result)) + 1)

-----------------------------------------------------------------------------
(* Claims about AgentInterface and its worker threads, under SpecGui *)

\* C11: in every reachable state at most one worker thread (ResetRuntimeThread,
\* RunTaskThread, StepActionThread, EvalTaskThread) is running, whatever
\* enabled buttons the user clicks.
C11_AtMostOneWorker == Cardinality(RunningThreads) <= 1

\* The agent has generated the first action of a run
FirstActionGenerated(t) == t.kind = "RunTaskThread" /\ t.pc = "emit_decline"

\* A step that starts an EvalTaskThread, whose first request is POST /task/eval
EvalStarts ==
    \E w \in ThreadIds :
        /\ threads'[w] = NewThread("EvalTaskThread", 0)
        /\ threads[w] # threads'[w]

\* C12: the phases of a task come in the order reset, run-steps, evaluate,
\* save: the first action is generated only after POST /task/reset was
\* accepted, the polling ended on "finished" and GET /task/result said
\* finished with success; an EvalTaskThread (POST /task/eval) is started only
\* after finish_run_task ended the run; save_trajectory exports only after the
\* current EvalTaskThread put its evaluation results.
C12_PhasesInOrder ==
    /\ [](\A w \in ThreadIds :
            FirstActionGenerated(threads[w]) =>
                /\ threads[w].accepted /\ threads[w].polled
                /\ threads[w].last = "finished" /\ threads[w].reset_ok)
    /\ [][/\ EvalStarts => run_finished
          /\ (saved' /\ ~saved) =>
                /\ threads[current_thread].kind = "EvalTaskThread"
                /\ threads[current_thread].results = 2
                /\ run_finished]_vars

\* A task went through all four phases, and a first action was generated.
C12_Witness ==
    /\ saved /\ run_finished
    /\ \E w \in ThreadIds : FirstActionGenerated(threads[w])

\* C13: the human-input handoff loses no wake-up: receive_user_input calls
\* wakeAll only while the worker it is called on is blocked in wait(), and a
\* worker that wait() has released holds exactly the text that was typed into
\* the dialog of its own request.
C13_NoLostWakeUp ==
    /\ ~lost_wake
    /\ \A w \in ThreadIds :
          threads[w].pc = "woken" =>
              threads[w].got # "unset" /\ threads[w].user_input = threads[w].got

\* The step is one in which the run() of worker w ends on a failed assert
Fails(w) == threads[w].pc # "failed" /\ threads'[w].pc = "failed"

\* C15: a worker that gets a non-200 response, an unknown status while
\* polling or an unexpected status on submit / result stops there: the step
\* emits no signal and re-enables no button (Start, Accept, Reject, Evaluate,
\* Next task), the thread sends no request and emits no signal afterwards,
\* and a run() that ends without its last signal has ended on the failure.
C15_WorkerStopsOnFailure ==
    [][\A w \in ThreadIds :
          /\ Fails(w) =>
                /\ events' = events /\ button' = button
                /\ dialogs' = dialogs /\ current_thread' = current_thread
                /\ \A v \in ThreadIds \ {w} : threads'[v] = threads[v]
          /\ (threads[w].pc = "failed" /\ ~aborted') =>
                threads'[w] = threads[w]
          /\ (Running(threads[w]) /\ ~Running(threads'[w]) /\ ~aborted'
                  /\ events' = events) =>
                Fails(w)]_vars

\* A RunTaskThread has failed, the window is still there, and none of the
\* five buttons is enabled.
C15_Witness ==
    /\ ~aborted
    /\ \E w \in ThreadIds :
          threads[w].kind = "RunTaskThread" /\ threads[w].pc = "failed"
    /\ ~button.start /\ ~button.confirm /\ ~button.decline /\ ~button.eval
    /\ ~button.next

-----------------------------------------------------------------------------
(* Claims about _wait_finish, under SpecWaitFinish *)

\* The thread is in the while loop of _wait_finish
InWaitFinish(t) == t.pc \in {"poll", "lock", "wait", "waiting", "woken", "confirm_y"}

-----------------------------------------------------------------------------
(* Claims about the paging calls, under SpecPaging *)

RECURSIVE AllItems(_)
\* The items of all pages of a chain, in page order
AllItems(pages) ==
    IF pages = <<>> THEN <<>> ELSE Head(pages).items \o AllItems(Tail(pages))

\* The tokens of a walk over the first n pages: none, then that of each page
TokensOfWalk(n) == [k \in 1..n |-> IF k = 1 THEN NoToken ELSE k]

\* C16: list_events and list_calendars request every page exactly once, in
\* the order given by nextPageToken, stop at the first page that carries no
\* token, and return the items of all pages in page order.
C16_EveryPageOnceInOrder ==
    pfn \in {"list_events", "list_calendars"} =>
        /\ Len(requested) <= Len(chain)
        /\ requested = TokensOfWalk(Len(requested))
        /\ collected = AllItems(SubSeq(chain, 1, Len(requested)))
        /\ (ppc = "returned") = (Len(requested) = Len(chain))

\* list_events has returned a listing of more than one page with items on it.
C16_Witness ==
    /\ pfn = "list_events" /\ ppc = "returned"
    /\ Len(chain) = MaxPages /\ Len(collected) > Len(chain)

\* C17: search_events_by_time_range terminates for every finite page chain,
\* also when the first response carries a nextPageToken, and returns every
\* event exactly once: it makes no more requests than there are pages, and
\* what it returns is the items of all pages.
C17_SearchTerminates ==
    pfn = "search_events_by_time_range" =>
        /\ Len(requested) <= Len(chain)
        /\ ppc = "returned" => collected = AllItems(chain)

-----------------------------------------------------------------------------
(* Claims about single calls of FilesystemEvaluator.execute, under SpecFsCall *)

\* The file operation of the step fails because of the environment: the
\* operating system refuses it, or the file it is to act on is missing.
OperationFails(f, step, fail) ==
    CASE step.action \in {"create_file", "rename", "chmod"} ->
            ApplyMutation(f, step, fail).exc \in
                {"PermissionError", "FileNotFoundError", "IsADirectoryError",
                 "NotADirectoryError", "OSError"}
      [] step.action \in {"copy", "move"} ->
            step.path # NoKey /\ step.dest # NoKey /\ (fail \/ ~exists(f, step.path))
      [] OTHER -> FALSE

\* C18: when the file operation of a create_file, rename, copy, move or chmod
\* step fails because of the environment (the copy or move of a missing
\* source included), execute returns 0.0.
C18_FailedOperationScoresZero ==
    (opc = "returned" /\ OperationFails(oin.tree, oin.step, oin.fail)) =>
        oout.score = 0

\* The check at position i asserts that the deleted file exists.
AssertsDeletedExists(i) ==
    /\ oin.checks[i].action = "exists"
    /\ oin.checks[i].entry.path = oin.deleted
    /\ oin.checks[i].entry.flag

\* The list of checks asserts that the deleted file exists.
DeletedWasAsserted == \E j \in 1..Len(oin.checks) : AssertsDeletedExists(j)

-----------------------------------------------------------------------------
(* Claims about the screen refresh, under SpecRefresh *)

\* C20: at most one update_screen frame grab executes at a time, and only
\* inside a render that holds refreshing_screen; a timer tick whose render
\* starts while another render is in progress returns without grabbing; and
\* when a render that grabbed completes, refreshing_screen is false and the
\* refresh timer is running again (AgentInterface.render runs to its end
\* within one slot and always leaves them so).
C20_OneGrabAtATime ==
    /\ [](grabbing <= 1 /\ (grabbing = 1 => refreshing_screen))
    /\ [](window = "AgentInterface" => ~refreshing_screen /\ timer_active)
    /\ [][(refreshing_screen /\ ready' < ready) =>
              /\ grabbing' = grabbing /\ refreshing_screen'
              /\ now_screenshot' = now_screenshot /\ shown' = shown]_vars
    /\ [][grabbing' < grabbing => ~refreshing_screen' /\ timer_active']_vars

\* A tick was scheduled while a render of the Recorder is waiting for its
\* screenshot.
C20_Witness ==
    window = "Recorder" /\ grabbing = 1 /\ ready > 0 /\ refreshing_screen
-----------------------------------------------------------------------------
(* Claims about FrameBuffer, under SpecFrames *)

\* C21 (as stated): every frame that was added is still in the buffer, in
\* insertion order, whatever add_frame, get_frames and clear calls were made.
C21_AppendOnly == queue = added

\* C21 (amended): the buffer holds, in insertion order, exactly the frames
\* added since clear last ran; add_frame and get_frames remove and reorder
\* nothing, and clear empties the buffer.
C21_AppendOnlySinceClear == queue = SubSeq(added, cleared + 1, Len(added))

\* clear has run after an add, two frames were added since, and a get_frames
\* is about to return frames
C21_Witness ==
    /\ cleared > 0
    /\ Len(queue) >= 2
    /\ \E t \in BufThreads :
          calls[t].op = "get_frames" /\ calls[t].pc = "release" /\ calls[t].frames # <<>>

-----------------------------------------------------------------------------
(* Claims about OpenAIProvider.generate_response, under SpecProvider *)

\* every call of create before the last one raised a listed exception
RetriedOnlyAfterListed ==
    \A i \in 1..(Len(attempts) - 1) : attempts[i].kind \in Listed

\* C22: generate_response calls the completion API at most max_retries times
\* per request; it calls again only after APIError, RateLimitError or
\* APITimeoutError, returns the first successful response, lets any other
\* exception out at its first occurrence, and lets the listed exception out
\* once max_retries calls have all failed.
C22_BoundedRetries ==
    /\ Len(attempts) <= max_retries
    /\ RetriedOnlyAfterListed
    /\ lpc = "sleep" => attempts[Len(attempts)].kind \in Listed
    /\ lpc = "returned" =>
          /\ attempts[Len(attempts)].kind = "response"
          /\ lresult = [kind |-> "return", value |-> attempts[Len(attempts)].value]
    /\ (lpc = "raised" /\ attempts # <<>>) =>
          LET last == attempts[Len(attempts)] IN
          /\ last.kind # "response"
          /\ lresult = Inner(last)
          /\ last.kind \in Listed => Len(attempts) = max_retries
    /\ (lpc = "try" /\ attempts # <<>>) =>
          attempts[Len(attempts)].kind \in Listed /\ Len(attempts) < max_retries

\* a request whose max_retries calls all raised a listed exception
C22_Witness ==
    /\ lpc = "raised"
    /\ Len(attempts) = max_retries
    /\ lresult.value \in Listed

-----------------------------------------------------------------------------
(* Claims about the weight of a task, under Spec *)

\* C23: the value a call of the EvaluatorComb returns is weighted by the
\* declared weight of its task: it is the product of the evaluators' scores
\* times task_config["score"], the weight eval_tasks reads for that task.
C23_CombAppliesTaskWeight ==
    [][(epc = "scored" /\ epc' = "tasks") =>
          task_score = Product(cscores) * weights'[Len(weights')]]_vars

-----------------------------------------------------------------------------
(* Claims about message_match, under SpecMail *)

\* C24: message_match(msg, ref) is true exactly when every field that ref
\* declares matches: recipient by the first e-mail address of each side, body
\* after stripping the blanks around it, subject, attachment and cc (when not
\* None in ref) exactly; a field that ref does not declare changes nothing.
C24_MatchIffDeclaredFieldsMatch ==
    /\ wpc # "idle" => wresult = wallmatch
    /\ (wpc = "keys" /\ wref = Undeclared) =>
          MatchStep(wresult, MailKeys[wkey], wmsg, wref) = wresult

\* a reference that declares all five fields was compared with a message
\* that matches it, and message_match returned True
C24_Witness ==
    wpc = "returned" /\ wresult /\ wdeclared = Len(MailKeys)

-----------------------------------------------------------------------------
(* Claims about read_unfinished_tasks, under SpecUnfinished *)

\* the entries of results_dir that load_result can load
Loadable == {i \in 1..Len(udirs) : load_result(udirs[i].exists, udirs[i].content).exc = "none"}

\* the task ids of the results that can be loaded from results_dir
LoadableIds == {load_result(udirs[i].exists, udirs[i].content).result.task_id : i \in Loadable}

\* the positions of the task configs that no loadable result names
Remaining == {i \in 1..Len(uconfigs) : uconfigs[i] \notin LoadableIds}

\* C25: read_unfinished_tasks returns, in their original order, exactly the
\* task configs whose task_id occurs in no result that load_results could
\* load; an entry that fails to load is skipped and the loop goes on, so its
\* task counts as unfinished.
C25_UnfinishedAreTheUnloaded ==
    upc = "returned" =>
        /\ Len(uresults) = Cardinality(Loadable)
        /\ uskipped = Len(udirs) - Cardinality(Loadable)
        /\ Len(unfinished) = Cardinality(Remaining)
        /\ \A k \in 1..Len(unfinished) :
              \E i \in Remaining :
                 /\ unfinished[k] = uconfigs[i]
                 /\ Cardinality({j \in Remaining : j < i}) = k - 1

\* the first entry of results_dir fails to load and the second holds the
\* result of task a; of the configs b, a, b the two b are returned
C25_Witness ==
    /\ upc = "returned"
    /\ Loadable = {2} /\ LoadableIds = {<<"a">>}
    /\ uconfigs = <<(<<"b">>), (<<"a">>), (<<"b">>)>>
    /\ unfinished = <<(<<"b">>), (<<"b">>)>>

-----------------------------------------------------------------------------
(* Claims about the steps of a task run, under SpecGui *)

\* C26: reset() restores current_step_num to its initial value 1: while the
\* ResetRuntimeThread that reset() started is the current thread, the counter
\* that the next StepActionThread is given is 1, so the step limit of a task
\* counts only the actions of that task.
C26_ResetRestoresStepCounter ==
    (~aborted /\ threads[current_thread].kind = "ResetRuntimeThread") =>
        current_step_num = 1

\* C27: after reset() the Start button is enabled only after the
\* ResetRuntimeThread it started received the successful response to
\* POST /runtime/reset: while that thread still waits for the response, Start
\* is disabled whatever the user does.
C27_StartOnlyAfterRuntimeReset ==
    (/\ ~aborted
     /\ threads[current_thread].kind = "ResetRuntimeThread"
     /\ threads[current_thread].pc = "runtime_reset") => ~button.start

\* C28: whenever save_trajectory runs, the result queue of the current
\* EvalTaskThread already holds the two results, the auto-evaluation result
\* first: when the slot of save_trajectory_signal is the next to run, the
\* current thread is an EvalTaskThread whose queue holds two items, and the
\* slot never waits in current_thread_result.get().
C28_SaveFindsBothResults ==
    /\ gpc.at # "get"
    /\ (GuiIdle /\ events # <<>> /\ Head(events).sig = "save_trajectory_signal") =>
          /\ threads[current_thread].kind = "EvalTaskThread"
          /\ threads[current_thread].results = 2

\* C29: each generated action is acted on at most once: from the click that
\* starts a StepActionThread until that thread has generated the next action,
\* Accept and Reject are disabled, so no click can call agent.step_action
\* while a StepActionThread is still executing its step.
C29_NoClickWhileStepRuns ==
    (\E w \in ThreadIds :
        threads[w].kind = "StepActionThread" /\ threads[w].pc = "step_action") =>
        (~button.confirm /\ ~button.decline)

-----------------------------------------------------------------------------
(* Claims about the result of event_match_left, under SpecCal *)

\* C30: event_match_left returns a boolean for every pair of events; when
\* the reference declares start or end and the queried event lacks that key
\* or its dateTime, the result is False and no exception is raised.
C30_AlwaysReturnsBoolean ==
    mpc = "returned" => mresult \in {"True", "False"}

====
